---- MODULE Spec2Model ----
(***************************************************************************)
(* Model of the test-case runner of snforge (crates/forge/src/running.rs), *)
(* of the per-test-case CheatnetState (crates/cheatnet/src/lib.rs) and of  *)
(* the snfoundry.toml lookup (crates/configuration/src/lib.rs), of the     *)
(* configuration helpers of sncast (crates/sncast/src/helpers) and of      *)
(* snforge's project initialization (crates/forge/src/init.rs).            *)
(*                                                                         *)
(* The specifications share the variables below:                           *)
(*   SpecCheatnet   one CheatnetState object and the calls made on it      *)
(*   Spec           one invocation of run_from_test_case / _test_case2, or *)
(*                  one run of the script command of sncast                *)
(*   SpecMsg        the message built for a CairoRunError                  *)
(*   SpecDeclare    class declarations against one class store             *)
(*   SpecIsolation  several invocations of run_from_test_case, interleaved *)
(*   SpecCheats     installs and cancels on one registry of cheats         *)
(*   SpecSearch     search_config_upwards_relative_to                      *)
(*   SpecLoad       load_global_config                                     *)
(*   SpecProfile    get_profile                                            *)
(*   SpecCastConfig CastConfig::from_package_tool_sncast and from_raw      *)
(*   SpecScarb      parse_scarb_config and get_package_metadata            *)
(*   SpecHintsDict  build_hints_dict                                       *)
(*   SpecInit       init::run                                              *)
(* Each specification pins the variables of the others to their idle       *)
(* values.                                                                 *)
(***************************************************************************)
EXTENDS Integers, Sequences, FiniteSets, TLC

VARIABLES
    \* ---- CheatnetState (cheatnet/src/lib.rs) ----
    cheatnet_state,   \* None, or Some([cheatcode_state, blockifier_state,
                      \* deploy_salt_base, available_steps])
    host,             \* "running" | "panicked": the thread that owns the state
    max_steps,        \* the max_steps argument CheatnetState::new was given
    debited,          \* sum of the used_steps passed to decrease_available_steps
    debit_report,     \* what the last decrease_available_steps call reported
    salts,            \* the salts handed out so far, oldest first
    \* ---- run_from_test_case / run_from_test_case2 (forge/src/running.rs) ----
    fn_path,          \* 1: run_from_test_case, 2: run_from_test_case2
    case,             \* the TestCase: [name, available_gas]
    unit,             \* the compiled unit: [functions, required_gas]
    pc,               \* position inside the function
    blockifier_state, \* None, or Some(the CachedState the syscall handler of
                      \* this run is bound to)
    hints_processed,  \* hints and syscalls handled by the CairoHintProcessor
    steps_used,       \* VM steps executed in this run
    vm_invocations,   \* how many times the VM was started
    vm_result,        \* None, or Some(terminal signal of the VM)
    returned,         \* the values the function returned, oldest first
    hint_log,         \* the hints and syscalls the VM raised, oldest first:
                      \* [selector, key, value, malformed, by, forwarded,
                      \* response, failed]
    last_read,        \* None, or Some([via, key, ok, value, written]): the
                      \* last storage read, and what had been written to that
                      \* key before it
    plain,            \* the same program run with cheatcodes disabled, every
                      \* hint going to the syscall handler alone: [state,
                      \* answers, result]
    \* ---- message of a CairoRunError (running.rs:166-169) ----
    err_text,         \* error.to_string(), as a sequence of text pieces
    failed_msg,       \* None, or Some(msg) built from err_text
    \* ---- class declaration (Layered State, declare command) ----
    declared,         \* class hash -> None, or Some(bytecode) stored for it
    declare_result,   \* None, or Some([class_hash, bytecode, before, report,
                      \* exit]) of the last declaration
    \* ---- several test cases run side by side (running.rs:76-174) ----
    runs,             \* run id -> [pc, blockifier_state, cheatnet_state, hints,
                      \* last_salt, observed]: the locals of that invocation
                      \* and what it saw
    own,              \* run id -> [storage, deploys, cheats, max_steps,
                      \* debited]: what that run's own writes, deployments,
                      \* installs and debits alone amount to
    \* ---- registry of cheats of one Cheatcode State ----
    cheats,           \* the cheats held, in insertion order: [scope, kind, value]
    cheat_op,         \* None, or Some([op, scope, kind, value, before]): the
                      \* last install or cancel and the registry before it
    cheat_ops,        \* installs and cancels made so far
    \* ---- the script command of sncast (tests/e2e/script/general.rs) ----
    script_pc,        \* position inside the command
    script_log,       \* the hints the script raised, oldest first
    script_error,     \* None, or Some(text of the error the run ended with)
    script_output,    \* None, or Some([command, error, exit]): what the
                      \* command printed and how the process ended
    \* ---- snfoundry.toml (configuration/src/lib.rs) ----
    fs_configs,       \* the directories that hold a snfoundry.toml
    raw_shape,        \* what the snfoundry.toml files hold
    search_dir,       \* argument of search_config_upwards_relative_to
    search_result,    \* None, or Some(what it returned)
    load_path,        \* path argument of load_global_config: None or Some(dir)
    profile,          \* profile argument: None or Some(name)
    cwd,              \* Some(current directory of the process: its path and
                      \* whether the path is valid UTF-8), None if it cannot
                      \* be obtained
    load_result,      \* None, or Some(what load_global_config ended with)
    \* ---- get_profile (configuration/src/lib.rs:26-37) ----
    gp_config,        \* raw_config argument: a TOML table
    gp_profile,       \* profile argument: None or Some(name)
    gp_result,        \* None, or Some(what get_profile ended with)
    \* ---- CastConfig (sncast/src/helpers) ----
    cc_tool_sncast,   \* the [tool.sncast] value of a package, or a profile table
    cc_profile,       \* profile argument: None or Some(name)
    cc_result,        \* None, or Some(what from_package_tool_sncast ended with)
    cc_raw_result,    \* None, or Some(what from_raw ended with)
    \* ---- parse_scarb_config, get_package_metadata (scarb_utils.rs) ----
    sc_files,         \* the paths that exist
    sc_manifest,      \* what `scarb manifest-path` gives in the current directory
    sc_metadata,      \* what `scarb metadata` gives for the manifest
    sc_cwd,           \* the current directory of the process, None if gone
    sc_profile,       \* profile argument: None or Some(name)
    sc_path,          \* path argument: None or Some(path)
    sc_package_name,  \* package_name argument: None or Some(name)
    sc_result,        \* None, or Some(what parse_scarb_config ended with)
    pm_result,        \* None, or Some(what get_package_metadata ended with)
    \* ---- build_hints_dict (running.rs:50-74) ----
    bh_instructions,  \* the instructions given
    bh_next,          \* index of the instruction the loop takes next
    bh_hint_offset,   \* hint_offset
    bh_hints_dict,    \* hints_dict: a map as a set of <<offset, hints>>
    bh_string_to_hint,\* string_to_hint: a map as a set of <<string, hint>>
    bh_returned,      \* None, or Some(<<hints_dict, string_to_hint>>)
    \* ---- init::run (forge/src/init.rs:83-123) ----
    init_template,    \* TEMPLATE: for each directory None, or Some(number of files)
    init_pc,          \* the step run() takes next
    init_log,         \* the steps taken so far, each with its outcome
    init_touched,     \* what run() itself has written in the project
    init_returned     \* None, or Some(what run returned)

cheatnetVars == <<cheatnet_state, host, max_steps, debited, debit_report, salts>>
runVars == <<fn_path, case, unit, pc, blockifier_state, hints_processed,
             steps_used, vm_invocations, vm_result, returned, hint_log,
             last_read, plain>>
hintVars == <<hint_log, last_read, plain>>
msgVars == <<err_text, failed_msg>>
declareVars == <<declared, declare_result>>
\* the variables of the specifications added to the first three
isoVars == <<runs, own>>
cheatVars == <<cheats, cheat_op, cheat_ops>>
scriptVars == <<script_pc, script_log, script_error, script_output>>
searchVars == <<search_dir, search_result>>
loadVars == <<load_path, profile, cwd, load_result>>
configVars == <<fs_configs, raw_shape, searchVars, loadVars>>
profileVars == <<gp_config, gp_profile, gp_result>>
\* the groups of the later specifications
castVars == <<cc_tool_sncast, cc_profile, cc_result, cc_raw_result>>
scarbVars == <<sc_files, sc_manifest, sc_metadata, sc_cwd, sc_profile, sc_path,
               sc_package_name, sc_result, pm_result>>
hintsDictVars == <<bh_instructions, bh_next, bh_hint_offset, bh_hints_dict,
                   bh_string_to_hint, bh_returned>>
initVars == <<init_template, init_pc, init_log, init_touched, init_returned>>
lateVars == <<profileVars, castVars, scarbVars, hintsDictVars, initVars>>
earlyVars == <<declareVars, isoVars, cheatVars, configVars, scriptVars>>
auxVars == <<earlyVars, lateVars>>
coreVars == <<cheatnetVars, runVars, msgVars>>
vars == <<coreVars, auxVars>>

\* what the actions of one specification leave alone
exceptDeclare == <<coreVars, isoVars, cheatVars, configVars, scriptVars, lateVars>>
exceptIso == <<coreVars, declareVars, cheatVars, configVars, scriptVars, lateVars>>
exceptCheats == <<coreVars, declareVars, isoVars, configVars, scriptVars, lateVars>>
exceptConfig == <<coreVars, declareVars, isoVars, cheatVars, scriptVars, lateVars>>
exceptScript == <<coreVars, declareVars, isoVars, cheatVars, configVars, lateVars>>
exceptProfile == <<coreVars, earlyVars, castVars, scarbVars, hintsDictVars, initVars>>
exceptCast == <<coreVars, earlyVars, profileVars, scarbVars, hintsDictVars, initVars>>
exceptScarb == <<coreVars, earlyVars, profileVars, castVars, hintsDictVars, initVars>>
exceptHintsDict == <<coreVars, earlyVars, profileVars, castVars, scarbVars, initVars>>
exceptInit == <<coreVars, earlyVars, profileVars, castVars, scarbVars, hintsDictVars>>

(***************************************************************************)
(* Option<T>: None is the empty sequence, Some(v) the one-element one.     *)
(***************************************************************************)
None == <<>>
Some(v) == <<v>>
IsSome(o) == o # None
Unwrap(o) == o[1]

(***************************************************************************)
(* u32.  TLC's integers stop at 2^31 - 1, so a u32 is kept as its two      *)
(* 16-bit halves <<hi, lo>>, value hi * 65536 + lo.                        *)
(***************************************************************************)
U32Half == 65536

ToU32(n) == <<n \div U32Half, n % U32Half>>

U32Lt(a, b) == a[1] < b[1] \/ (a[1] = b[1] /\ a[2] < b[2])

U32Le(a, b) == a = b \/ U32Lt(a, b)

\* a + b modulo 2^32
U32WrappingAdd(a, b) ==
    LET lo == a[2] + b[2]
        hi == a[1] + b[1] + (lo \div U32Half)
    IN  <<hi % U32Half, lo % U32Half>>

\* a - b modulo 2^32
U32WrappingSub(a, b) ==
    LET borrow == IF a[2] < b[2] THEN 1 ELSE 0
        lo == a[2] + borrow * U32Half - b[2]
        hi == a[1] + U32Half - b[1] - borrow
    IN  <<hi % U32Half, lo>>

\* a + b does not fit in a u32
U32AddOverflows(a, b) == U32Lt(U32WrappingAdd(a, b), a)

\* a - b does not fit in a u32
U32SubOverflows(a, b) == U32Lt(a, b)

(***************************************************************************)
(* Bounds of the model.                                                    *)
(***************************************************************************)
MaxBudget == 3        \* largest max_steps tried
MaxUsedSteps == 2     \* largest used_steps of one debit
MaxDebited == 5       \* debits stop once their sum reaches this
MaxDeploys == 5       \* deployments in one test case
MaxClasses == 3       \* class hashes that can be declared
MaxRuns == 2          \* test cases run side by side
MaxCheatOps == 3      \* installs and cancels on one registry
MaxDepth == 2         \* depth of the directories searched for a config file
MaxLoadDepth == 1     \* depth of the directories a config is loaded from

(***************************************************************************)
(* CheatnetState                                                           *)
(***************************************************************************)
StorageKeys == {"K"}

\* StateResult<StarkFelt>: the value read, or a StateError
StateOk(value) == [ok |-> TRUE, value |-> value]
StateErr == [ok |-> FALSE, value |-> 0]

\* build_testing_state(predeployed_contracts): a DictStateReader that holds the
\* predeployed contracts and no storage entry
build_testing_state == [k \in StorageKeys |-> None]

\* DictStateReader::get_storage_at: the entry held, the default value of a
\* StarkFelt when none is
DictStateReader_get_storage_at(reader, k) ==
    IF IsSome(reader[k]) THEN StateOk(Unwrap(reader[k])) ELSE StateOk(0)

\* The remote reader of a fork: what the remote ledger holds at each key, and
\* whether the remote can be reached
ForkStateReader(storage, available) == [storage |-> storage, available |-> available]

\* What a remote ledger can hold at a key: nothing, or a value that is not zero
RemoteValues == {None, Some(5)}
ForkStateReaders ==
    {ForkStateReader([k \in StorageKeys |-> v], a) : v \in RemoteValues, a \in BOOLEAN}

\* ForkStateReader::get_storage_at: fails when the remote cannot be reached,
\* gives the remote's value otherwise, the default value where it holds none
ForkStateReader_get_storage_at(fork, k) ==
    IF ~fork.available THEN StateErr
    ELSE IF IsSome(fork.storage[k]) THEN StateOk(Unwrap(fork.storage[k]))
    ELSE StateOk(0)

\* ExtendedStateReader { dict_state_reader, fork_state_reader }
ExtendedStateReader(dict, fork) == [dict_state_reader |-> dict, fork_state_reader |-> fork]

\* running.rs:142-145 and :309-312, ExtendedStateReader { dict_state_reader:
\* build_testing_state(predeployed_contracts), fork_state_reader: None }
TestingStateReader ==
    ExtendedStateReader(build_testing_state, None)

\* The readers a CheatnetState can be created over: the runner's, and the
\* same with a fork attached
StateReaders ==
    {TestingStateReader}
    \cup {ExtendedStateReader(build_testing_state, Some(f)) : f \in ForkStateReaders}

\* A reader that never asks the fork
ExtendedStateReader_get_storage_at_local(reader, k) ==
    IF IsSome(reader.dict_state_reader[k]) THEN StateOk(Unwrap(reader.dict_state_reader[k]))
    ELSE StateOk(0)

\* ExtendedStateReader::get_storage_at: the local reader first, then the fork
\* if one is attached; without a fork a key the local reader does not hold
\* reads as the default value
ExtendedStateReader_get_storage_at(reader, k) ==
    IF IsSome(reader.dict_state_reader[k]) THEN StateOk(Unwrap(reader.dict_state_reader[k]))
    ELSE IF IsSome(reader.fork_state_reader)
    THEN ForkStateReader_get_storage_at(Unwrap(reader.fork_state_reader), k)
    ELSE StateOk(0)

\* get_storage_at of the reader a CachedState is built over: a bare
\* DictStateReader (running.rs:121-124) or an ExtendedStateReader (lib.rs:27)
StateReader_get_storage_at(state, k) ==
    IF "fork_state_reader" \in DOMAIN state
    THEN ExtendedStateReader_get_storage_at(state, k)
    ELSE DictStateReader_get_storage_at(state, k)

\* CachedState::new(state, ..): nothing is written yet
CachedState_new(state) == [cache |-> [k \in StorageKeys |-> None], state |-> state]

\* CachedState::set_storage_at: the write lands in the cache, never in the
\* reader under it
CachedState_set_storage_at(cs, k, v) == [cs EXCEPT !.cache[k] = Some(v)]

\* CachedState::get_storage_at: the cache first, then the reader under it
CachedState_get_storage_at(cs, k) ==
    IF IsSome(cs.cache[k]) THEN StateOk(Unwrap(cs.cache[k]))
    ELSE StateReader_get_storage_at(cs.state, k)

\* CachedState::new(build_testing_state(predeployed_contracts), ..) of
\* running.rs:121-124 and :271-274, which the syscall handler is bound to
InitialStorage == CachedState_new(build_testing_state)

\* CheatcodeState::new(): no cheat is installed
CheatcodeState_new == <<>>

\* CheatnetState::new(state, max_steps)
CheatnetState_new(state, steps) ==
    [cheatcode_state |-> CheatcodeState_new,
     blockifier_state |-> CachedState_new(state),
     deploy_salt_base |-> ToU32(0),
     available_steps |-> IF steps = None THEN None ELSE Some(ToU32(Unwrap(steps)))]

\* the largest u32
u32_MAX == <<U32Half - 1, U32Half - 1>>

\* self.deploy_salt_base += 1.  At u32::MAX the addition overflows: a build
\* with overflow checks panics ("attempt to add with overflow") and leaves the
\* counter as it was, a build without them wraps the counter to 0.  The value
\* is the set of outcomes the call can have.
increment_deploy_salt_base(s) ==
    LET wrapped == [s EXCEPT !.deploy_salt_base = U32WrappingAdd(@, ToU32(1))] IN
    IF U32AddOverflows(s.deploy_salt_base, ToU32(1))
    THEN {[panicked |-> TRUE, state |-> s], [panicked |-> FALSE, state |-> wrapped]}
    ELSE {[panicked |-> FALSE, state |-> wrapped]}

\* ContractAddressSalt(StarkFelt::from(self.deploy_salt_base))
get_salt(s) == s.deploy_salt_base

\* Some(self.available_steps.unwrap() - used_steps), where neither the unwrap
\* nor the subtraction fails
decrease_available_steps(s, used_steps) ==
    [s EXCEPT !.available_steps =
        Some(U32WrappingSub(Unwrap(s.available_steps), ToU32(used_steps)))]

CheatnetAlive == host = "running" /\ IsSome(cheatnet_state)

\* The run of the same program with cheatcodes disabled, before its first
\* hint: it has a CachedState of its own, built as InitialStorage is
PlainRun_new == [state |-> InitialStorage, answers |-> <<>>, result |-> None]

\* One deployment: the salt is read with get_salt and consumed with
\* increment_deploy_salt_base before anything else happens.  A panic of the
\* increment takes the host down.
NextDeploySalt ==
    /\ CheatnetAlive
    /\ Len(salts) < MaxDeploys
    /\ LET s == Unwrap(cheatnet_state) IN
        \E outcome \in increment_deploy_salt_base(s) :
            /\ salts' = Append(salts, get_salt(s))
            /\ cheatnet_state' = Some(outcome.state)
            /\ host' = IF outcome.panicked THEN "panicked" ELSE host
    /\ UNCHANGED <<max_steps, debited, debit_report>>

\* A long run of deployments taken in one step: deployment after deployment,
\* none of which overflows, until the counter stands at u32::MAX - 1.  Of the
\* salts handed out on the way only the last is recorded.
DeployManySalts ==
    /\ CheatnetAlive
    /\ Len(salts) < MaxDeploys
    /\ salts # <<>>
    /\ LET s == Unwrap(cheatnet_state)
           target == U32WrappingSub(u32_MAX, ToU32(1))
           last == U32WrappingSub(target, ToU32(1)) IN
        /\ U32Lt(s.deploy_salt_base, last)
        /\ salts' = Append(salts, last)
        /\ cheatnet_state' = Some([s EXCEPT !.deploy_salt_base = target])
    /\ UNCHANGED <<host, max_steps, debited, debit_report>>

\* decrease_available_steps(used_steps) on a state whose budget is tracked and
\* covers the debit
DebitCovered(used_steps) ==
    /\ CheatnetAlive
    /\ debited < MaxDebited
    /\ LET s == Unwrap(cheatnet_state) IN
        /\ IsSome(s.available_steps)
        /\ ~U32SubOverflows(Unwrap(s.available_steps), ToU32(used_steps))
        /\ cheatnet_state' = Some(decrease_available_steps(s, used_steps))
    /\ debited' = debited + used_steps
    /\ debit_report' = "returned"
    /\ UNCHANGED <<host, max_steps, salts>>

\* decrease_available_steps(used_steps) with used_steps above the remaining
\* budget: the u32 subtraction overflows.  A build with overflow checks panics
\* ("attempt to subtract with overflow").
DebitOverdrawnPanics(used_steps) ==
    /\ CheatnetAlive
    /\ debited < MaxDebited
    /\ LET s == Unwrap(cheatnet_state) IN
        /\ IsSome(s.available_steps)
        /\ U32SubOverflows(Unwrap(s.available_steps), ToU32(used_steps))
    /\ host' = "panicked"
    /\ debited' = debited + used_steps
    /\ debit_report' = "panic"
    /\ UNCHANGED <<cheatnet_state, max_steps, salts>>

\* The same call in a build without overflow checks: the subtraction wraps
\* around and the call returns.
DebitOverdrawnWraps(used_steps) ==
    /\ CheatnetAlive
    /\ debited < MaxDebited
    /\ LET s == Unwrap(cheatnet_state) IN
        /\ IsSome(s.available_steps)
        /\ U32SubOverflows(Unwrap(s.available_steps), ToU32(used_steps))
        /\ cheatnet_state' = Some(decrease_available_steps(s, used_steps))
    /\ debited' = debited + used_steps
    /\ debit_report' = "returned"
    /\ UNCHANGED <<host, max_steps, salts>>

\* decrease_available_steps(used_steps) on a state with available_steps = None:
\* Option::unwrap panics on None in every build.
DebitUntracked(used_steps) ==
    /\ CheatnetAlive
    /\ debited < MaxDebited
    /\ Unwrap(cheatnet_state).available_steps = None
    /\ host' = "panicked"
    /\ debited' = debited + used_steps
    /\ debit_report' = "panic"
    /\ UNCHANGED <<cheatnet_state, max_steps, salts>>

(***************************************************************************)
(* Idle values of the variables a specification does not use.              *)
(***************************************************************************)
CheatnetIdle ==
    /\ cheatnet_state = None
    /\ host = "running"
    /\ max_steps = None
    /\ debited = 0
    /\ debit_report = "none"
    /\ salts = <<>>

RunIdle ==
    /\ fn_path = 0
    /\ case = [name |-> "", available_gas |-> None]
    /\ unit = [functions |-> {}, required_gas |-> None]
    /\ pc = "idle"
    /\ blockifier_state = None
    /\ hints_processed = 0
    /\ steps_used = 0
    /\ vm_invocations = 0
    /\ vm_result = None
    /\ returned = <<>>
    /\ hint_log = <<>>
    /\ last_read = None
    /\ plain = PlainRun_new

MsgIdle ==
    /\ err_text = <<>>
    /\ failed_msg = None

ClassHashes == 1..MaxClasses
Bytecodes == {"b1", "b2"}

DeclareIdle ==
    /\ declared = [h \in ClassHashes |-> None]
    /\ declare_result = None

RunIds == 1..MaxRuns

\* a test case whose run_from_test_case has not been called yet
CaseWaiting ==
    [pc |-> "waiting", blockifier_state |-> None, cheatnet_state |-> None,
     hints |-> 0, last_salt |-> None, observed |-> None]

IsoIdle ==
    /\ runs = [r \in RunIds |-> CaseWaiting]
    /\ own = [r \in RunIds |-> [storage |-> [k \in StorageKeys |-> None], deploys |-> 0,
                               cheats |-> {}, max_steps |-> None, debited |-> 0]]

CheatsIdle ==
    /\ cheats = CheatcodeState_new
    /\ cheat_op = None
    /\ cheat_ops = 0

ScriptIdle ==
    /\ script_pc = "idle"
    /\ script_log = <<>>
    /\ script_error = None
    /\ script_output = None

SearchIdle ==
    /\ search_dir = <<>>
    /\ search_result = None

LoadIdle ==
    /\ load_path = None
    /\ profile = None
    /\ cwd = None
    /\ load_result = None

ConfigIdle ==
    /\ fs_configs = {}
    /\ raw_shape = "full"
    /\ SearchIdle
    /\ LoadIdle

ProfileIdle ==
    /\ gp_config = {}
    /\ gp_profile = None
    /\ gp_result = None

CastIdle ==
    /\ cc_tool_sncast = <<>>
    /\ cc_profile = None
    /\ cc_result = None
    /\ cc_raw_result = None

ScarbIdle ==
    /\ sc_files = {}
    /\ sc_manifest = <<>>
    /\ sc_metadata = <<>>
    /\ sc_cwd = None
    /\ sc_profile = None
    /\ sc_path = None
    /\ sc_package_name = None
    /\ sc_result = None
    /\ pm_result = None

HintsDictIdle ==
    /\ bh_instructions = <<>>
    /\ bh_next = 1
    /\ bh_hint_offset = 0
    /\ bh_hints_dict = {}
    /\ bh_string_to_hint = {}
    /\ bh_returned = None

InitRunIdle ==
    /\ init_template = <<>>
    /\ init_pc = "current_dir"
    /\ init_log = <<>>
    /\ init_touched = {}
    /\ init_returned = None

LateIdle == ProfileIdle /\ CastIdle /\ ScarbIdle /\ HintsDictIdle /\ InitRunIdle

EarlyIdleButScript == DeclareIdle /\ IsoIdle /\ CheatsIdle /\ ConfigIdle

EarlyIdle == EarlyIdleButScript /\ ScriptIdle

AuxIdle == EarlyIdle /\ LateIdle

(***************************************************************************)
(* Text.  A string is the sequence of its pieces; a piece is a space, a    *)
(* line feed, the words "Custom Hint Error:" or a stretch of other text    *)
(* that holds neither a space nor part of those words.  Concatenating the  *)
(* pieces gives the string.                                                *)
(***************************************************************************)
Marker == "Custom Hint Error:"
Pieces == {" ", "\n", Marker, "e"}

\* " Custom Hint Error: ", the text run_from_test_case searches for
HintErrorPattern == <<" ", Marker, " ">>
\* "\n    ", what it puts in its place
Indent == <<"\n", " ", " ", " ", " ">>

StartsWith(s, prefix) ==
    Len(s) >= Len(prefix) /\ SubSeq(s, 1, Len(prefix)) = prefix

\* str::replace(from, to): every non-overlapping match of `from`, found left
\* to right, is replaced by `to`
RECURSIVE str_replace(_, _, _)
str_replace(s, from, to) ==
    IF Len(s) < Len(from) THEN s
    ELSE IF StartsWith(s, from)
         THEN to \o str_replace(SubSeq(s, Len(from) + 1, Len(s)), from, to)
         ELSE <<Head(s)>> \o str_replace(Tail(s), from, to)

\* A formatting that keeps only what follows the last marker
RECURSIVE after_last_pattern(_)
after_last_pattern(s) ==
    IF Len(s) < Len(HintErrorPattern) THEN s
    ELSE LET rest == after_last_pattern(Tail(s)) IN
         IF rest # Tail(s) THEN rest
         ELSE IF StartsWith(s, HintErrorPattern)
              THEN SubSeq(s, Len(HintErrorPattern) + 1, Len(s))
              ELSE s

format_failed_msg_cause_only(error_text) ==
    Indent \o after_last_pattern(error_text) \o <<"\n">>

\* format!("\n    {}\n", error.to_string().replace(" Custom Hint Error: ", "\n    "))
format_failed_msg(error_text) ==
    Indent \o str_replace(error_text, HintErrorPattern, Indent) \o <<"\n">>

(***************************************************************************)
(* run_from_test_case and run_from_test_case2                              *)
(***************************************************************************)
MaxHints == 2         \* hints and syscalls handled in one run
MaxVmSteps == 3       \* VM steps of one run

\* Result<TestCaseSummary>
Ok(summary) == [tag |-> "Ok", summary |-> Some(summary), error |-> None]
Err(kind) == [tag |-> "Err", summary |-> None, error |-> Some(kind)]

\* TestCaseSummary::Passed { name, msg, run_result } and ::Failed { .. }
Passed(name, msg, run_result) ==
    [kind |-> "Passed", name |-> name, msg |-> msg, run_result |-> run_result]
Failed(name, msg, run_result) ==
    [kind |-> "Failed", name |-> name, msg |-> msg, run_result |-> run_result]

\* Felts of the return data and the short strings they decode to
Felts == {1, 2}
as_cairo_short_string(felt) == IF felt = 1 THEN "assertion failed" ELSE "overflow"

\* The message decoded from the return data of a run
extract_result_data(data) ==
    IF data = <<>> THEN None
    ELSE Some([i \in 1..Len(data) |-> as_cairo_short_string(data[i])])

\* TestCaseSummary::from_run_result(run_result, case)
from_run_result(run_result, c) ==
    IF run_result.variant = "Success"
    THEN Passed(c.name, extract_result_data(run_result.data), Some(run_result))
    ELSE Failed(c.name, extract_result_data(run_result.data), Some(run_result))

\* How a VM run can end.  "Return": the function returned, with the variant of
\* its value (Success, or Panic: the panic marker) and the data.
\* "CairoRunError": RunnerError::CairoRunError(error), with the text of error.
\* "OtherError": any other RunnerError.
Return(variant, data) ==
    [sig |-> "Return", variant |-> variant, data |-> data, text |-> <<>>]
CairoRunError(text) ==
    [sig |-> "CairoRunError", variant |-> "", data |-> <<>>, text |-> text]
OtherError ==
    [sig |-> "OtherError", variant |-> "", data |-> <<>>, text |-> <<>>]

\* The RunResult of a run that returned: its value, RunResultValue::Success(data)
\* or ::Panic(data).  It holds no count of the steps run.
RunResultOf(signal) ==
    [variant |-> signal.variant, data |-> signal.data]

ReturnData == {<<>>, <<1>>, <<2>>, <<2, 1>>}
ErrorTexts ==
    { <<"e", " ", Marker, " ", "e">>,
      <<"e", "\n", "e", " ", Marker, " ", "e", " ", "e">>,
      <<"e">> }

\* A match on the run's result that treats every error alike
run_function_match_propagate(c, signal) ==
    IF signal.sig = "Return"
    THEN Ok(from_run_result(RunResultOf(signal), c))
    ELSE Err(signal.sig)

\* A match on the run's result that turns every error into a failure
run_function_match_swallow(c, signal) ==
    IF signal.sig = "Return"
    THEN Ok(from_run_result(RunResultOf(signal), c))
    ELSE Ok(Failed(c.name, Some(format_failed_msg(signal.text)), None))

\* match runner.run_function(..) { Ok(result) => .., Err(CairoRunError(error)) => ..,
\* Err(err) => .. } of run_from_test_case
run_function_match(c, signal) ==
    IF signal.sig = "Return"
    THEN Ok(from_run_result(RunResultOf(signal), c))
    ELSE IF signal.sig = "CairoRunError"
    THEN Ok(Failed(c.name, Some(format_failed_msg(signal.text)), None))
    ELSE Err(signal.sig)

\* cheatable_run_entry_point(..)?; finalize_execution(..)?; Ok(Failed { "aeae", .. })
\* of run_from_test_case2
run_entry_point_result(c, signal) ==
    IF signal.sig = "Return"
    THEN Ok(Failed("aeae", None, None))
    ELSE Err(signal.sig)

\* A lookup that finds every name
find_function_any(u, name) == TRUE

\* runner.find_function(name) is Ok
find_function(u, name) == name \in u.functions

\* runner.get_initial_available_gas(func, available_gas) is Ok: the gas given
\* (usize::MAX when the case names none) covers the gas the function requires
\* (nothing when the unit has no gas costs)
get_initial_available_gas(u, c) ==
    \/ c.available_gas = None
    \/ u.required_gas = None
    \/ Unwrap(c.available_gas) >= Unwrap(u.required_gas)

\* An error that is recorded while the function goes on
try_fallthrough(ok, next) == next

\* The `?` operator: go on when the value is Ok, return the error otherwise
try(ok, next) == IF ok THEN next ELSE "done"

\* What a step that ends in `?` does to pc and returned
TryStep(ok, next, kind) ==
    /\ pc' = try(ok, next)
    /\ returned' = IF ok THEN returned ELSE Append(returned, Err(kind))

\* running.rs:88 and :190, runner.find_function(case.name.as_str())?
FindFunction ==
    /\ pc = "start"
    /\ TryStep(find_function(unit, case.name),
               IF fn_path = 1 THEN "gas" ELSE "program", "MissingFunction")
    /\ UNCHANGED <<fn_path, case, unit, blockifier_state, hints_processed,
                   steps_used, vm_invocations, vm_result, cheatnetVars, msgVars, hintVars, auxVars>>

\* running.rs:89, runner.get_initial_available_gas(func, available_gas)?
GetInitialAvailableGas ==
    /\ pc = "gas"
    /\ TryStep(get_initial_available_gas(unit, case), "entry_code", "NotEnoughGasToCall")
    /\ UNCHANGED <<fn_path, case, unit, blockifier_state, hints_processed,
                   steps_used, vm_invocations, vm_result, cheatnetVars, msgVars, hintVars, auxVars>>

\* running.rs:90, runner.create_entry_code(func, &[], initial_gas)?
CreateEntryCode ==
    /\ pc = "entry_code"
    /\ \E ok \in BOOLEAN : TryStep(ok, "setup", "EntryCodeError")
    /\ UNCHANGED <<fn_path, case, unit, blockifier_state, hints_processed,
                   steps_used, vm_invocations, vm_result, cheatnetVars, msgVars, hintVars, auxVars>>

\* running.rs:91-148: the hint table, the contexts, a fresh CachedState and a
\* fresh CheatnetState for this run
Setup ==
    /\ pc = "setup"
    /\ pc' = "run"
    /\ blockifier_state' = Some(InitialStorage)
    /\ cheatnet_state' = Some(CheatnetState_new(TestingStateReader, None))
    /\ UNCHANGED <<fn_path, case, unit, hints_processed, steps_used, vm_invocations,
                   vm_result, returned, host, max_steps, debited, debit_report,
                   salts, msgVars, hintVars, auxVars>>

\* running.rs:199-276: the program and a fresh CachedState
BuildProgram ==
    /\ pc = "program"
    /\ pc' = "context"
    /\ blockifier_state' = Some(InitialStorage)
    /\ UNCHANGED <<fn_path, case, unit, hints_processed, steps_used, vm_invocations,
                   vm_result, returned, cheatnetVars, msgVars, hintVars, auxVars>>

\* running.rs:278-293, initialize_execution_context(..)?: CairoRunner::new,
\* initialize_function_runner_cairo_1 and prepare_program_extra_data may each
\* refuse
InitializeExecutionContext ==
    /\ pc = "context"
    /\ \E ok \in BOOLEAN : TryStep(ok, "args", "PreExecutionError")
    /\ UNCHANGED <<fn_path, case, unit, blockifier_state, hints_processed,
                   steps_used, vm_invocations, vm_result, cheatnetVars, msgVars, hintVars, auxVars>>

\* running.rs:295-315, prepare_call_arguments(..)? and a fresh CheatnetState
PrepareCallArguments ==
    /\ pc = "args"
    /\ \E ok \in BOOLEAN :
        /\ TryStep(ok, "run", "PrepareArgumentsError")
        /\ cheatnet_state' = IF ok THEN Some(CheatnetState_new(TestingStateReader, None)) ELSE cheatnet_state
    /\ UNCHANGED <<fn_path, case, unit, blockifier_state, hints_processed,
                   steps_used, vm_invocations, vm_result, host, max_steps, debited,
                   debit_report, salts, msgVars, hintVars, auxVars>>

\* running.rs:150-151 and :318: the VM is started.  The second
\* runner.find_function(case.name.as_str())? of run_from_test_case looks up the
\* name line 88 already found.
StartVm ==
    /\ pc = "run"
    /\ LET found == fn_path = 2 \/ find_function(unit, case.name) IN
        /\ TryStep(found, "vm", "MissingFunction")
        /\ vm_invocations' = IF found THEN vm_invocations + 1 ELSE vm_invocations
    /\ UNCHANGED <<fn_path, case, unit, blockifier_state, hints_processed,
                   steps_used, vm_result, cheatnetVars, msgVars, hintVars, auxVars>>

\* The VM executes an instruction that carries no hint
VmStep ==
    /\ pc = "vm"
    /\ steps_used < MaxVmSteps
    /\ steps_used' = steps_used + 1
    /\ UNCHANGED <<fn_path, case, unit, pc, blockifier_state, hints_processed,
                   vm_invocations, vm_result, returned, cheatnetVars, msgVars, hintVars, auxVars>>

\* The selectors the cheatcode layer recognises, and those it does not: the
\* Starknet syscalls
CheatcodeSelectors == {"deploy", "call"}
SyscallSelectors == {"storage_write", "storage_read", "emit_event"}

\* A hint or syscall as the VM raises it: the selector, the arguments, and
\* whether the arguments fail to decode
HintRequest(selector, k, v, malformed) ==
    [selector |-> selector, key |-> k, value |-> v, malformed |-> malformed]

\* What a handler gives back to the VM: the response it wrote, or a failure
HintAnswer(response, failed) == [response |-> response, failed |-> failed]

\* SyscallHintProcessor::execute_hint, the default handler, on the CachedState
\* it is bound to: a request it cannot decode or does not know fails, a write
\* lands in the CachedState, a read is answered from it
default_handler(cs, request) ==
    IF request.malformed \/ request.selector \notin SyscallSelectors
    THEN [state |-> cs, answer |-> HintAnswer(None, TRUE)]
    ELSE IF request.selector = "storage_write"
    THEN [state |-> CachedState_set_storage_at(cs, request.key, request.value),
          answer |-> HintAnswer(None, FALSE)]
    ELSE IF request.selector = "storage_read"
    THEN LET r == CachedState_get_storage_at(cs, request.key) IN
         [state |-> cs,
          answer |-> IF r.ok THEN HintAnswer(Some(r.value), FALSE)
                     ELSE HintAnswer(None, TRUE)]
    ELSE [state |-> cs, answer |-> HintAnswer(None, FALSE)]

\* A dispatch that refuses what it does not recognise
handled_by_strict(selector) ==
    IF selector \in CheatcodeSelectors THEN "cheatcode" ELSE "error"

\* The dispatch of the hint processor: a recognised selector is run by the
\* cheatcode layer, any other goes to the syscall handler it wraps
handled_by(selector) ==
    IF selector \in CheatcodeSelectors THEN "cheatcode" ELSE "default"

\* CairoHintProcessor::execute_hint on the syscall handler's CachedState: who
\* handled the request, the request the syscall handler was given if it was
\* given one, the CachedState afterwards and the answer.  A cheatcode leaves
\* this CachedState alone (it works on the CheatnetState) and fails when its
\* arguments do not decode.
execute_hint(cs, request) ==
    LET by == handled_by(request.selector) IN
    IF by = "default"
    THEN LET r == default_handler(cs, request) IN
         [by |-> by, forwarded |-> Some(request), state |-> r.state, answer |-> r.answer]
    ELSE IF by = "cheatcode"
    THEN [by |-> by, forwarded |-> None, state |-> cs,
          answer |-> HintAnswer(None, request.malformed)]
    ELSE [by |-> by, forwarded |-> None, state |-> cs, answer |-> HintAnswer(None, TRUE)]

\* The entry of hint_log for a request the hint processor handled as h
HintEntry(request, h) ==
    [selector |-> request.selector, key |-> request.key, value |-> request.value,
     malformed |-> request.malformed, by |-> h.by, forwarded |-> h.forwarded,
     response |-> h.answer.response, failed |-> h.answer.failed]

\* The value the syscall path last wrote to k, if it wrote any
LastWrite(log, k) ==
    LET writes == {i \in 1..Len(log) :
                    log[i].selector = "storage_write" /\ log[i].key = k /\ ~log[i].failed}
    IN  IF writes = {} THEN None
        ELSE Some(log[CHOOSE i \in writes : \A j \in writes : j <= i].value)

\* One hint or syscall is handled and the VM resumes
HintHandled(entry) ==
    /\ pc = "vm"
    /\ steps_used < MaxVmSteps
    /\ hints_processed < MaxHints
    /\ steps_used' = steps_used + 1
    /\ hints_processed' = hints_processed + 1
    /\ hint_log' = Append(hint_log, entry)

\* "Got an exception while executing a hint: Custom Hint Error: <cause>", the
\* error of a cheatcode that failed, and the error of a syscall the syscall
\* handler failed on
HintFailureText == <<"e", " ", Marker, " ", "e">>
SyscallFailureText == <<"e">>

\* The error the run with cheatcodes disabled stops with at a hint its
\* syscall handler does not know
UnknownHintText == <<"e", "\n", "e">>

\* The run with cheatcodes disabled is given the request too, unless it has
\* ended: its syscall handler answers, and a failure ends that run
PlainRunAfter(request) ==
    LET p == default_handler(plain.state, request) IN
    IF IsSome(plain.result) THEN plain
    ELSE [state |-> p.state,
          answers |-> Append(plain.answers, p.answer),
          result |-> IF ~p.answer.failed THEN None
                     ELSE IF request.selector \in SyscallSelectors
                     THEN Some(CairoRunError(SyscallFailureText))
                     ELSE Some(CairoRunError(UnknownHintText))]

\* The VM suspends on a syscall that the hint processor answers without a
\* failure, and resumes
SyscallRaised(request) ==
    LET h == execute_hint(Unwrap(blockifier_state), request) IN
    /\ IsSome(blockifier_state)
    /\ h.by # "cheatcode"
    /\ ~h.answer.failed
    /\ HintHandled(HintEntry(request, h))
    /\ blockifier_state' = Some(h.state)
    /\ plain' = PlainRunAfter(request)

\* The VM suspends on a storage-write syscall, which the hint processor
\* forwards to the syscall handler bound to this run's CachedState
VmStorageWrite ==
    /\ \E k \in StorageKeys, v \in {0, 7} :
        SyscallRaised(HintRequest("storage_write", k, v, FALSE))
    /\ UNCHANGED <<fn_path, case, unit, pc, vm_invocations, vm_result, returned,
                   last_read, cheatnetVars, msgVars, auxVars>>

\* The VM suspends on a storage-read syscall, forwarded the same way
VmStorageRead ==
    /\ \E k \in StorageKeys :
        LET request == HintRequest("storage_read", k, 0, FALSE)
            h == execute_hint(Unwrap(blockifier_state), request) IN
        /\ SyscallRaised(request)
        /\ last_read' = Some([via |-> "syscall", key |-> k, ok |-> TRUE,
                              value |-> Unwrap(h.answer.response),
                              written |-> LastWrite(hint_log, k)])
    /\ UNCHANGED <<fn_path, case, unit, pc, vm_invocations, vm_result, returned,
                   cheatnetVars, msgVars, auxVars>>

\* The VM suspends on a syscall that touches no storage, forwarded too
VmOtherSyscall ==
    /\ SyscallRaised(HintRequest("emit_event", "", 0, FALSE))
    /\ UNCHANGED <<fn_path, case, unit, pc, vm_invocations, vm_result, returned,
                   last_read, cheatnetVars, msgVars, auxVars>>

\* The VM suspends on a deploy cheatcode, which takes the next deploy salt of
\* this run's CheatnetState
VmDeploy ==
    /\ IsSome(blockifier_state)
    /\ LET request == HintRequest("deploy", "", 0, FALSE)
           h == execute_hint(Unwrap(blockifier_state), request) IN
        /\ h.by = "cheatcode"
        /\ HintHandled(HintEntry(request, h))
        /\ plain' = PlainRunAfter(request)
    /\ NextDeploySalt
    /\ UNCHANGED <<fn_path, case, unit, pc, blockifier_state, vm_invocations,
                   vm_result, returned, last_read, msgVars, auxVars>>

\* The VM suspends on a call cheatcode, which runs the callee on the
\* CachedState of this run's CheatnetState; the callee reads a storage key
VmCheatnetRead ==
    /\ IsSome(blockifier_state)
    /\ IsSome(cheatnet_state)
    /\ \E k \in StorageKeys :
        LET request == HintRequest("call", k, 0, FALSE)
            h == execute_hint(Unwrap(blockifier_state), request)
            r == CachedState_get_storage_at(Unwrap(cheatnet_state).blockifier_state, k) IN
        /\ h.by = "cheatcode"
        /\ r.ok
        /\ HintHandled([HintEntry(request, h) EXCEPT !.response = Some(r.value)])
        /\ plain' = PlainRunAfter(request)
        /\ last_read' = Some([via |-> "cheatcode", key |-> k, ok |-> r.ok,
                              value |-> r.value,
                              written |-> LastWrite(hint_log, k)])
    /\ UNCHANGED <<fn_path, case, unit, pc, blockifier_state, vm_invocations,
                   vm_result, returned, cheatnetVars, msgVars, auxVars>>

\* The hint processor fails on a hint: a cheatcode whose arguments do not
\* decode, a syscall the syscall handler fails on, or a selector the dispatch
\* refuses.  The VM stops with the error.
VmHintFails ==
    /\ pc = "vm"
    /\ hints_processed < MaxHints
    /\ IsSome(blockifier_state)
    /\ \E selector \in CheatcodeSelectors \cup SyscallSelectors, k \in StorageKeys, malformed \in BOOLEAN :
        LET request == HintRequest(selector, k, 0, malformed)
            h == execute_hint(Unwrap(blockifier_state), request) IN
        /\ h.answer.failed
        /\ hint_log' = Append(hint_log, HintEntry(request, h))
        /\ blockifier_state' = Some(h.state)
        /\ vm_result' = Some(CairoRunError(IF h.by = "default" THEN SyscallFailureText
                                           ELSE HintFailureText))
        /\ plain' = PlainRunAfter(request)
    /\ hints_processed' = hints_processed + 1
    /\ pc' = "match"
    /\ UNCHANGED <<fn_path, case, unit, steps_used, vm_invocations, returned,
                   last_read, cheatnetVars, msgVars, auxVars>>

VmSignals ==
    {Return("Success", d) : d \in ReturnData}
    \cup {Return("Panic", d) : d \in ReturnData}
    \cup {CairoRunError(t) : t \in ErrorTexts}
    \cup {OtherError}

\* the answers the hint processor gave in this run, oldest first
AnswersOf(log) == [i \in 1..Len(log) |-> HintAnswer(log[i].response, log[i].failed)]

\* The VM run ends.  The VM is deterministic: the run with cheatcodes
\* disabled, if it is still going and its hints were answered as this run's
\* were, ends the same way.
VmTerminate ==
    /\ pc = "vm"
    /\ \E signal \in VmSignals :
        /\ vm_result' = Some(signal)
        /\ \E plain_signal \in IF plain.answers = AnswersOf(hint_log) THEN {signal} ELSE VmSignals :
            plain' = IF IsSome(plain.result) THEN plain
                     ELSE [plain EXCEPT !.result = Some(plain_signal)]
    /\ pc' = "match"
    /\ UNCHANGED <<fn_path, case, unit, blockifier_state, hints_processed,
                   steps_used, vm_invocations, returned, hint_log, last_read,
                   cheatnetVars, msgVars, auxVars>>

\* running.rs:150-173: run_from_test_case returns what the match gives
MatchRunResult ==
    /\ pc = "match"
    /\ fn_path = 1
    /\ returned' = Append(returned, run_function_match(case, Unwrap(vm_result)))
    /\ pc' = "done"
    /\ UNCHANGED <<fn_path, case, unit, blockifier_state, hints_processed,
                   steps_used, vm_invocations, vm_result, cheatnetVars, msgVars, hintVars, auxVars>>

\* running.rs:318-343: run_from_test_case2 returns
FinalizeExecution ==
    /\ pc = "match"
    /\ fn_path = 2
    /\ \/ returned' = Append(returned, run_entry_point_result(case, Unwrap(vm_result)))
       \/ /\ Unwrap(vm_result).sig = "Return"
          /\ returned' = Append(returned, Err("PostExecutionError"))
    /\ pc' = "done"
    /\ UNCHANGED <<fn_path, case, unit, blockifier_state, hints_processed,
                   steps_used, vm_invocations, vm_result, cheatnetVars, msgVars, hintVars, auxVars>>

(***************************************************************************)
(* The script command of sncast, as the e2e test of a script that uses a   *)
(* Starknet syscall shows it (tests/e2e/script/general.rs:79-101).         *)
(***************************************************************************)
\* "Got an exception while executing a hint: Hint Error: Starknet syscalls are
\* not supported"
SyscallsUnsupported ==
    <<"Got an exception while executing a hint: ", "Hint Error: ",
      "Starknet syscalls are not supported">>

\* A hint processor that lets the syscalls of a script through
script_execute_hint_lenient(selector) == None

\* The hint processor of a script, by the error it gives if it gives one: it
\* serves the cheatcodes of sncast and refuses every Starknet syscall
script_execute_hint(selector) ==
    IF selector \in SyscallSelectors THEN Some(SyscallsUnsupported) ELSE None

\* What the command prints and how the process ends: "command: script", then
\* "error: <text>" when the run of the script ended with an error; the exit
\* code is success
script_response(error) ==
    [command |-> "script", error |-> error, exit |-> "success"]

\* The script raises a hint
ScriptHint ==
    /\ script_pc = "vm"
    /\ Len(script_log) < MaxHints
    /\ \E selector \in CheatcodeSelectors \cup SyscallSelectors :
        LET error == script_execute_hint(selector) IN
        /\ script_log' = Append(script_log, [selector |-> selector, failed |-> IsSome(error)])
        /\ script_error' = error
        /\ script_pc' = IF IsSome(error) THEN "report" ELSE "vm"
    /\ UNCHANGED <<script_output, exceptScript>>

\* The main function of the script returns
ScriptReturn ==
    /\ script_pc = "vm"
    /\ script_pc' = "report"
    /\ UNCHANGED <<script_log, script_error, script_output, exceptScript>>

\* The command prints its response and the process ends
ScriptReport ==
    /\ script_pc = "report"
    /\ script_output' = Some(script_response(script_error))
    /\ script_pc' = "done"
    /\ UNCHANGED <<script_log, script_error, exceptScript>>

CaseNames == {"test_a", "test_b"}
Cases == [name : CaseNames, available_gas : {None, Some(0), Some(2)}]
Units == [functions : {{"test_a"}, {"test_a", "test_b"}}, required_gas : {None, Some(1)}]

\* snforge calls one of the two runners for a test case
InitRunner ==
    /\ fn_path \in {1, 2}
    /\ case \in Cases
    /\ unit \in Units
    /\ pc = "start"
    /\ blockifier_state = None
    /\ hints_processed = 0
    /\ steps_used = 0
    /\ vm_invocations = 0
    /\ vm_result = None
    /\ returned = <<>>
    /\ hint_log = <<>>
    /\ last_read = None
    /\ plain = PlainRun_new
    /\ ScriptIdle

\* sncast runs a script
InitScript ==
    /\ RunIdle
    /\ script_pc = "vm"
    /\ script_log = <<>>
    /\ script_error = None
    /\ script_output = None

Init ==
    /\ InitRunner \/ InitScript
    /\ CheatnetIdle
    /\ MsgIdle
    /\ EarlyIdleButScript
    /\ LateIdle

Next ==
    \/ FindFunction
    \/ GetInitialAvailableGas
    \/ CreateEntryCode
    \/ Setup
    \/ BuildProgram
    \/ InitializeExecutionContext
    \/ PrepareCallArguments
    \/ StartVm
    \/ VmStep
    \/ VmStorageWrite
    \/ VmStorageRead
    \/ VmOtherSyscall
    \/ VmDeploy
    \/ VmCheatnetRead
    \/ VmHintFails
    \/ VmTerminate
    \/ MatchRunResult
    \/ FinalizeExecution
    \/ ScriptHint
    \/ ScriptReturn
    \/ ScriptReport

Spec == Init /\ [][Next]_vars

(***************************************************************************)
(* SpecCheatnet: one CheatnetState, created with any max_steps over a      *)
(* reader with or without a fork, and any sequence of deployments, step    *)
(* debits, storage writes and storage reads on it.                         *)
(***************************************************************************)
MaxStepsArgs == {None} \cup {Some(b) : b \in 0..MaxBudget}

\* the variables of a run other than hint_log and last_read
runButLog == <<fn_path, case, unit, pc, blockifier_state, hints_processed,
               steps_used, vm_invocations, vm_result, returned, plain>>

\* A write to the CachedState of the CheatnetState (its blockifier_state is
\* public, lib.rs:17), as a cheatcode that stores a value makes it
CheatnetStore ==
    /\ CheatnetAlive
    /\ Len(hint_log) < MaxHints
    /\ \E k \in StorageKeys, v \in {0, 7} :
        LET request == HintRequest("storage_write", k, v, FALSE)
            h == [by |-> "cheatcode", forwarded |-> None, answer |-> HintAnswer(None, FALSE)] IN
        /\ cheatnet_state' = Some([Unwrap(cheatnet_state) EXCEPT
                !.blockifier_state = CachedState_set_storage_at(@, k, v)])
        /\ hint_log' = Append(hint_log, HintEntry(request, h))
    /\ UNCHANGED <<host, max_steps, debited, debit_report, salts, last_read,
                   runButLog, msgVars, auxVars>>

\* A read from the CachedState of the CheatnetState
CheatnetLoad ==
    /\ CheatnetAlive
    /\ \E k \in StorageKeys :
        LET r == CachedState_get_storage_at(Unwrap(cheatnet_state).blockifier_state, k) IN
        last_read' = Some([via |-> "cheatnet", key |-> k, ok |-> r.ok, value |-> r.value,
                           written |-> LastWrite(hint_log, k)])
    /\ UNCHANGED <<cheatnetVars, hint_log, runButLog, msgVars, auxVars>>

InitCheatnet ==
    /\ max_steps \in MaxStepsArgs
    /\ \E reader \in StateReaders :
        cheatnet_state = Some(CheatnetState_new(reader, max_steps))
    /\ host = "running"
    /\ debited = 0
    /\ debit_report = "none"
    /\ salts = <<>>
    /\ RunIdle
    /\ MsgIdle
    /\ AuxIdle

NextCheatnet ==
    \/ NextDeploySalt /\ UNCHANGED <<runVars, msgVars, auxVars>>
    \/ DeployManySalts /\ UNCHANGED <<runVars, msgVars, auxVars>>
    \/ \E n \in 0..MaxUsedSteps : DebitCovered(n) /\ UNCHANGED <<runVars, msgVars, auxVars>>
    \/ \E n \in 0..MaxUsedSteps : DebitOverdrawnPanics(n) /\ UNCHANGED <<runVars, msgVars, auxVars>>
    \/ \E n \in 0..MaxUsedSteps : DebitOverdrawnWraps(n) /\ UNCHANGED <<runVars, msgVars, auxVars>>
    \/ \E n \in 0..MaxUsedSteps : DebitUntracked(n) /\ UNCHANGED <<runVars, msgVars, auxVars>>
    \/ CheatnetStore
    \/ CheatnetLoad

SpecCheatnet == InitCheatnet /\ [][NextCheatnet]_vars

(***************************************************************************)
(* SpecMsg: the message of a Failed summary, for every error text of up to *)
(* MaxTextLen pieces.                                                      *)
(***************************************************************************)
MaxTextLen == 6

Texts == UNION {[1..n -> Pieces] : n \in 0..MaxTextLen}

InitMsg ==
    /\ err_text \in Texts
    /\ failed_msg = None
    /\ CheatnetIdle
    /\ RunIdle
    /\ AuxIdle

FormatFailedMsg ==
    /\ failed_msg = None
    /\ failed_msg' = Some(format_failed_msg(err_text))
    /\ UNCHANGED <<err_text, cheatnetVars, runVars, auxVars>>

NextMsg == FormatFailedMsg

SpecMsg == InitMsg /\ [][NextMsg]_vars

(***************************************************************************)
(* Properties                                                              *)
(***************************************************************************)
\* a is a subsequence of b: its elements appear in b, in the same order
RECURSIVE IsSubseq(_, _)
IsSubseq(a, b) ==
    IF a = <<>> THEN TRUE
    ELSE IF b = <<>> THEN FALSE
    ELSE IF Head(a) = Head(b) THEN IsSubseq(Tail(a), Tail(b))
    ELSE IsSubseq(a, Tail(b))

\* s holds `part` as a contiguous stretch
Contains(s, part) ==
    \E i \in 0..(Len(s) - Len(part)) : SubSeq(s, i + 1, i + Len(part)) = part

\* the number of pieces before the first `part` of s
FirstAt(s, part) ==
    CHOOSE i \in 0..(Len(s) - Len(part)) :
        /\ SubSeq(s, i + 1, i + Len(part)) = part
        /\ \A j \in 0..(i - 1) : SubSeq(s, j + 1, j + Len(part)) # part

CountOf(x, s) == Cardinality({i \in 1..Len(s) : s[i] = x})

IsNotMarker(piece) == piece # Marker

\* the test outcome a returned value stands for
OutcomeOf(r) == IF r.tag = "Err" THEN "Errored" ELSE Unwrap(r.summary).kind

VmEndedWith(sig) == IsSome(vm_result) /\ Unwrap(vm_result).sig = sig

\* C1: the salts handed out in one test case start at 0, are strictly
\* increasing (so pairwise distinct), and each is consumed before the next is
\* handed out: while the host runs, the counter is above every salt handed
\* out so far, so it has never gone back or wrapped.
C1_SaltsStrictlyIncreasing ==
    /\ salts # <<>> => salts[1] = ToU32(0)
    /\ \A i, j \in 1..Len(salts) : i < j => U32Lt(salts[i], salts[j])
    /\ (IsSome(cheatnet_state) /\ host = "running") =>
        /\ \A i \in 1..Len(salts) :
            U32Lt(salts[i], Unwrap(cheatnet_state).deploy_salt_base)
        /\ salts = <<>> => Unwrap(cheatnet_state).deploy_salt_base = ToU32(0)

\* C2: once the debits passed to decrease_available_steps exceed the tracked
\* budget, the call reports resource exhaustion; the host keeps running and
\* the remaining budget stays within the budget given.
C2_OverdraftReportedAsExhaustion ==
    (IsSome(max_steps) /\ debited > Unwrap(max_steps)) =>
        /\ debit_report = "ResourceExhausted"
        /\ host = "running"
        /\ U32Le(Unwrap(Unwrap(cheatnet_state).available_steps),
                 ToU32(Unwrap(max_steps)))

\* C3: with no budget tracked (max_steps = None), debiting never fails and
\* available_steps stays None.
C3_UntrackedDebitNeverFails ==
    max_steps = None /\ IsSome(cheatnet_state) =>
        /\ host = "running"
        /\ debit_report # "panic"
        /\ Unwrap(cheatnet_state).available_steps = None

\* C4: when the VM run of run_from_test_case ends with a CairoRunError, the
\* function returns Ok(Failed) with the case's own name and a message that
\* holds the text of the error; it does not return Err.
C4_RuntimeErrorIsFailedValue ==
    (pc = "done" /\ fn_path = 1 /\ VmEndedWith("CairoRunError")) =>
        /\ Len(returned) = 1
        /\ returned[1].tag = "Ok"
        /\ LET summary == Unwrap(returned[1].summary) IN
            /\ summary.kind = "Failed"
            /\ summary.name = case.name
            /\ IsSome(summary.msg)
            /\ IsSubseq(SelectSeq(Unwrap(vm_result).text, IsNotMarker),
                        Unwrap(summary.msg))

\* C4 witness: a run of run_from_test_case that handled a hint ended with a
\* CairoRunError and has returned.
C4_Witness ==
    pc = "done" /\ fn_path = 1 /\ VmEndedWith("CairoRunError") /\ hints_processed > 0

\* C5: when the run ends with an error that is not a CairoRunError, both
\* functions return that error as Err, after a single start of the VM.
C5_OtherFaultPropagated ==
    (pc = "done" /\ VmEndedWith("OtherError")) =>
        /\ returned = <<Err("OtherError")>>
        /\ OutcomeOf(returned[1]) = "Errored"
        /\ vm_invocations = 1

\* C5 witness: a run that executed steps ended with another error and the
\* function has returned.
C5_Witness == pc = "done" /\ VmEndedWith("OtherError") /\ steps_used > 0

\* C6: a run that returned normally with no panic marker, and whose function
\* returned a summary, gives Passed with the run's result, on both paths.
C6_NormalReturnPasses ==
    (/\ pc = "done"
     /\ VmEndedWith("Return")
     /\ Unwrap(vm_result).variant = "Success"
     /\ returned # <<>>
     /\ returned[1].tag = "Ok") =>
        /\ Unwrap(returned[1].summary).kind = "Passed"
        /\ Unwrap(returned[1].summary).run_result = Some(RunResultOf(Unwrap(vm_result)))

\* dbg!(execution_resources) of running.rs:158: the ExecutionResources made
\* with ExecutionResources::default() (running.rs:125) and lent to the syscall
\* handler alone (running.rs:128).  runner.run_function is not given it, and
\* run_from_test_case adds nothing to it, so the steps the VM ran for the test
\* function are not in it.
execution_resources(steps) == [n_steps |-> 0]

\* The count of steps a summary reports, if it reports one.  A TestCaseSummary
\* has the fields name, msg and run_result (running.rs:164-168, :339-343).
reported_steps(summary) ==
    IF "resources" \in DOMAIN summary
    THEN Some(summary.resources)
    ELSE IF IsSome(summary.run_result) /\ "steps" \in DOMAIN Unwrap(summary.run_result)
    THEN Some(Unwrap(summary.run_result).steps)
    ELSE None

\* C7: a run of run_from_test_case that returned with the panic marker and
\* "assertion failed" in its data gives Failed with a message that contains
\* "assertion failed" and the data of the run, and the resource usage that is
\* reported, in the summary or in the resources printed, counts the steps the
\* run executed up to the panic.
C7_PanicIsFailedWithMessage ==
    (/\ pc = "done"
     /\ fn_path = 1
     /\ VmEndedWith("Return")
     /\ Unwrap(vm_result).variant = "Panic"
     /\ \E i \in 1..Len(Unwrap(vm_result).data) :
            as_cairo_short_string(Unwrap(vm_result).data[i]) = "assertion failed") =>
        /\ Len(returned) = 1
        /\ returned[1].tag = "Ok"
        /\ LET summary == Unwrap(returned[1].summary) IN
            /\ summary.kind = "Failed"
            /\ IsSome(summary.msg)
            /\ \E i \in 1..Len(Unwrap(summary.msg)) :
                   Unwrap(summary.msg)[i] = "assertion failed"
            /\ IsSome(summary.run_result)
            /\ Unwrap(summary.run_result).data = Unwrap(vm_result).data
            /\ \/ reported_steps(summary) = Some(steps_used)
               \/ execution_resources(steps_used).n_steps = steps_used

\* C8, in every state: nothing is returned before the function is done, one
\* value is returned when it is, and that value is one of the four outcomes.
C8_OneOutcomeWhenDone ==
    /\ Len(returned) <= 1
    /\ pc = "done" <=> Len(returned) = 1
    /\ \A i \in 1..Len(returned) :
        OutcomeOf(returned[i]) \in {"Passed", "Failed", "Ignored", "Errored"}

\* C8: every invocation of the runner returns exactly one outcome, returns
\* nothing before it is done, and the outcome never changes once returned.
C8_ExactlyOneOutcome ==
    /\ []C8_OneOutcomeWhenDone
    /\ [][returned # <<>> => returned' = returned]_vars

\* C8 witness: a run that handled hints has ended and one value was returned.
C8_Witness == pc = "done" /\ Len(returned) = 1 /\ hints_processed > 0

\* C9: the message of a hint-originated failure starts with the indent and
\* ends with a line feed; where the error text holds the wrapper
\* " Custom Hint Error: ", the text before the first one is followed by the
\* indent instead and the message holds fewer markers than the text; where
\* it holds none, the text is kept whole; and every piece of the text other
\* than the marker is in the message, in the original order.
C9_MarkerRemovedCauseKept ==
    IsSome(failed_msg) =>
        LET m == Unwrap(failed_msg) IN
        /\ StartsWith(m, Indent)
        /\ m[Len(m)] = "\n"
        /\ Contains(err_text, HintErrorPattern) =>
            /\ StartsWith(m, Indent
                    \o SubSeq(err_text, 1, FirstAt(err_text, HintErrorPattern))
                    \o Indent)
            /\ CountOf(Marker, m) < CountOf(Marker, err_text)
        /\ ~Contains(err_text, HintErrorPattern) => m = Indent \o err_text \o <<"\n">>
        /\ IsSubseq(SelectSeq(err_text, IsNotMarker), m)

\* C9 witness: the message was built for a text with the wrapper between a
\* prefix and a cause.
C9_Witness ==
    IsSome(failed_msg) /\ err_text = <<"e", " ", Marker, " ", "e">>

\* a returned value that is the error of a builder step
IsBuildError(r) ==
    r.tag = "Err" /\ Unwrap(r.error) \in {"MissingFunction", "EntryCodeError", "PreExecutionError"}

\* C10: when the function name is not in the compiled unit, or building the
\* entry code or the execution context is refused, the function returns Err
\* and the VM was never started: no step, hint or syscall, no CheatnetState,
\* no salt, and the CachedState, if made, is as it was made.
C10_BuildFailureBeforeVm ==
    (/\ pc = "done"
     /\ \/ case.name \notin unit.functions
        \/ returned # <<>> /\ IsBuildError(returned[1])) =>
        /\ Len(returned) = 1
        /\ returned[1].tag = "Err"
        /\ OutcomeOf(returned[1]) = "Errored"
        /\ vm_invocations = 0
        /\ vm_result = None
        /\ hints_processed = 0
        /\ steps_used = 0
        /\ cheatnet_state = None
        /\ salts = <<>>
        /\ IsSome(blockifier_state) => Unwrap(blockifier_state) = InitialStorage

\* C10 witness: run_from_test_case2 returned because the execution context
\* was refused.
C10_Witness ==
    /\ pc = "done"
    /\ fn_path = 2
    /\ returned = <<Err("PreExecutionError")>>

\* C11: within one run, a storage read returns the value the syscall path
\* last wrote to the same key, whether the syscall handler's CachedState or
\* the CheatnetState's CachedState serves the read: after 7 is written to K,
\* a read of K gives 7.
C11_ReadYourWrites ==
    (IsSome(last_read) /\ IsSome(Unwrap(last_read).written)) =>
        Unwrap(last_read).value = Unwrap(Unwrap(last_read).written)

\* every hint of the log had a selector that is no cheatcode
OnlyUnrecognized(log) ==
    \A i \in 1..Len(log) : log[i].selector \notin CheatcodeSelectors

\* the request the VM raised for an entry of the log
RequestOf(entry) == HintRequest(entry.selector, entry.key, entry.value, entry.malformed)

HintFailed == hint_log # <<>> /\ hint_log[Len(hint_log)].failed

\* the script's last hint failed in its hint processor
ScriptHintFailed == script_log # <<>> /\ script_log[Len(script_log)].failed

\* C13: when the hint processor fails on a hint, a cheatcode whose arguments
\* do not decode or a syscall the syscall handler fails on, the VM stops with
\* a CairoRunError and nothing else; the function returns exactly once:
\* run_from_test_case returns a Failed summary whose message is the error's
\* text, the cause of a cheatcode's failure on a line of its own, and
\* run_from_test_case2 returns the error.  When a script uses a Starknet
\* syscall, the run ends at that hint, and the script command prints the hint
\* error, "Starknet syscalls are not supported", and exits with success.
C13_HintFailureReported ==
    /\ HintFailed =>
        /\ pc \in {"match", "done"}
        /\ VmEndedWith("CairoRunError")
        /\ Unwrap(vm_result).text =
               IF hint_log[Len(hint_log)].selector \in CheatcodeSelectors
               THEN HintFailureText ELSE SyscallFailureText
    /\ (pc = "done" /\ HintFailed) =>
        /\ Len(returned) = 1
        /\ fn_path = 1 =>
            /\ returned[1].tag = "Ok"
            /\ OutcomeOf(returned[1]) = "Failed"
            /\ Unwrap(returned[1].summary).msg =
                   IF hint_log[Len(hint_log)].selector \in CheatcodeSelectors
                   THEN Some(Indent \o <<"e">> \o Indent \o <<"e", "\n">>)
                   ELSE Some(Indent \o <<"e", "\n">>)
        /\ fn_path = 2 => returned[1] = Err("CairoRunError")
    /\ \A i \in 1..Len(script_log) :
        /\ script_log[i].selector \in SyscallSelectors => script_log[i].failed
        /\ script_log[i].failed => i = Len(script_log) /\ script_pc \in {"report", "done"}
    /\ ScriptHintFailed => script_error = Some(SyscallsUnsupported)
    /\ (script_pc = "done" /\ ScriptHintFailed) =>
        script_output = Some([command |-> "script",
                              error |-> Some(SyscallsUnsupported),
                              exit |-> "success"])

\* C13 witness: a script served a cheatcode and then used the storage-read
\* syscall; the command has printed the hint error and ended.
C13_Witness ==
    /\ script_pc = "done"
    /\ Len(script_log) = 2
    /\ script_log[1].selector = "call"
    /\ script_log[2].selector = "storage_read"
    /\ IsSome(script_output)
    /\ Unwrap(script_output).error = Some(SyscallsUnsupported)

\* C13, on the runner: run_from_test_case returned after the syscall handler
\* failed on a storage write.
C13_RunnerReached ==
    /\ pc = "done"
    /\ fn_path = 1
    /\ HintFailed
    /\ hint_log[Len(hint_log)].selector = "storage_write"

ForkOf(s) == s.blockifier_state.state.fork_state_reader

CoreIdle == CheatnetIdle /\ RunIdle /\ MsgIdle

\* A declaration that stores what it is given, declared before or not
declare_class_overwrite(classes, class_hash, bytecode) ==
    [classes |-> [classes EXCEPT ![class_hash] = Some(bytecode)],
     report |-> IF IsSome(classes[class_hash]) THEN "already declared" ELSE "declared"]

\* declare_class(hash, bytecode): stores the class unless the hash is stored
\* already, which it reports
declare_class(classes, class_hash, bytecode) ==
    IF IsSome(classes[class_hash])
    THEN [classes |-> classes, report |-> "already declared"]
    ELSE [classes |-> [classes EXCEPT ![class_hash] = Some(bytecode)],
          report |-> "declared"]

\* declare.rs:81-87: the command that meets "is already declared" prints the
\* error and exits with success
declare_exit(report) == "success"

\* One declare command
Declare ==
    /\ \E class_hash \in ClassHashes, bytecode \in Bytecodes :
        LET r == declare_class(declared, class_hash, bytecode) IN
        /\ declared' = r.classes
        /\ declare_result' = Some([class_hash |-> class_hash, bytecode |-> bytecode,
                                   before |-> declared, report |-> r.report,
                                   exit |-> declare_exit(r.report)])
    /\ UNCHANGED exceptDeclare

InitDeclare ==
    /\ AuxIdle
    /\ CoreIdle

NextDeclare == Declare

SpecDeclare == InitDeclare /\ [][NextDeclare]_vars

\* C14: a declaration of a class hash that is stored already reports
\* "already declared", the command exits normally, and the stored classes,
\* the first bytecode of that hash among them, are what they were before it.
C14_RedeclareKeepsFirst ==
    (IsSome(declare_result) /\ IsSome(Unwrap(declare_result).before[
                                          Unwrap(declare_result).class_hash])) =>
        LET r == Unwrap(declare_result) IN
        /\ r.report = "already declared"
        /\ r.exit = "success"
        /\ declared = r.before
        /\ declared[r.class_hash] = r.before[r.class_hash]

\* C14 witness: class 1 holds b1 and was declared again with b2.
C14_Witness ==
    /\ IsSome(declare_result)
    /\ Unwrap(declare_result).class_hash = 1
    /\ Unwrap(declare_result).bytecode = "b2"
    /\ Unwrap(declare_result).before[1] = Some("b1")
    /\ declared[1] = Some("b1")

(***************************************************************************)
(* SpecCheats: installs and cancels on the registry of cheats of one       *)
(* Cheatcode State, and the lookup active_for.                             *)
(***************************************************************************)
Addresses == {"a1", "a2"}
class_hash_of == [a \in Addresses |-> "c1"]
CheatKinds == {"prank", "roll"}
CheatValues == {1, 2}

AddressScope(a) == [type |-> "Address", target |-> a]
ClassHashScope(c) == [type |-> "ClassHash", target |-> c]
GlobalScope == [type |-> "Global", target |-> ""]
Scopes ==
    {AddressScope(a) : a \in Addresses}
    \cup {ClassHashScope(class_hash_of[a]) : a \in Addresses}
    \cup {GlobalScope}

\* position of the cheat held under (scope, kind), 0 if none is
RECURSIVE position_of(_, _, _)
position_of(registry, scope, kind) ==
    IF registry = <<>> THEN 0
    ELSE LET last == registry[Len(registry)]
             before == position_of(SubSeq(registry, 1, Len(registry) - 1), scope, kind)
         IN  IF before # 0 THEN before
             ELSE IF last.scope = scope /\ last.kind = kind THEN Len(registry)
             ELSE 0

\* the cheat held under (scope, kind)
get_cheat(registry, scope, kind) ==
    LET i == position_of(registry, scope, kind) IN
    IF i = 0 THEN None ELSE Some(registry[i])

\* An install that adds the cheat and keeps what the key held
install_stacking(registry, cheat) == Append(registry, cheat)

\* install(cheat): upsert under (scope, kind)
install(registry, cheat) ==
    LET i == position_of(registry, cheat.scope, cheat.kind) IN
    IF i = 0 THEN Append(registry, cheat)
    ELSE [registry EXCEPT ![i] = cheat]

\* cancel(scope, kind): removes the cheat if one is held, no-op otherwise
cancel(registry, scope, kind) ==
    LET i == position_of(registry, scope, kind) IN
    IF i = 0 THEN registry
    ELSE SubSeq(registry, 1, i - 1) \o SubSeq(registry, i + 1, Len(registry))

\* A lookup that prefers the widest scope
active_for_widest(registry, addr, kind) ==
    LET by_address == get_cheat(registry, AddressScope(addr), kind)
        by_class == get_cheat(registry, ClassHashScope(class_hash_of[addr]), kind)
        global == get_cheat(registry, GlobalScope, kind)
    IN  IF IsSome(global) THEN global
        ELSE IF IsSome(by_class) THEN by_class
        ELSE by_address

\* active_for(addr, kind): Address scope, then ClassHash scope, then global
active_for(registry, addr, kind) ==
    LET by_address == get_cheat(registry, AddressScope(addr), kind)
        by_class == get_cheat(registry, ClassHashScope(class_hash_of[addr]), kind)
        global == get_cheat(registry, GlobalScope, kind)
    IN  IF IsSome(by_address) THEN by_address
        ELSE IF IsSome(by_class) THEN by_class
        ELSE global

CheatOp(op, scope, kind, value) ==
    [op |-> op, scope |-> scope, kind |-> kind, value |-> value, before |-> cheats]

\* an install cheatcode
InstallCheat ==
    /\ cheat_ops < MaxCheatOps
    /\ \E scope \in Scopes, kind \in CheatKinds, value \in CheatValues :
        /\ cheats' = install(cheats, [scope |-> scope, kind |-> kind, value |-> value])
        /\ cheat_op' = Some(CheatOp("install", scope, kind, value))
    /\ cheat_ops' = cheat_ops + 1
    /\ UNCHANGED exceptCheats

\* a cancel cheatcode
CancelCheat ==
    /\ cheat_ops < MaxCheatOps
    /\ \E scope \in Scopes, kind \in CheatKinds :
        /\ cheats' = cancel(cheats, scope, kind)
        /\ cheat_op' = Some(CheatOp("cancel", scope, kind, 0))
    /\ cheat_ops' = cheat_ops + 1
    /\ UNCHANGED exceptCheats

InitCheats ==
    /\ AuxIdle
    /\ CoreIdle

NextCheats ==
    \/ InstallCheat
    \/ CancelCheat

SpecCheats == InitCheats /\ [][NextCheats]_vars

\* the cheats of the registry held under (scope, kind)
HeldUnder(scope, kind) ==
    {i \in 1..Len(cheats) : cheats[i].scope = scope /\ cheats[i].kind = kind}

\* C16: for every address and kind, active_for gives the Address-scoped
\* cheat of that kind if one is held; else the cheat scoped to the class of
\* the address if one is held; the global cheat only when neither is held;
\* and nothing when none of the three is held.
C16_ScopePrecedence ==
    \A addr \in Addresses, kind \in CheatKinds :
        LET found == active_for(cheats, addr, kind)
            narrow == HeldUnder(AddressScope(addr), kind)
            middle == HeldUnder(ClassHashScope(class_hash_of[addr]), kind)
            wide == HeldUnder(GlobalScope, kind)
        IN  /\ narrow # {} => \E i \in narrow : found = Some(cheats[i])
            /\ (narrow = {} /\ middle # {}) => \E i \in middle : found = Some(cheats[i])
            /\ (narrow = {} /\ middle = {} /\ wide # {}) =>
                    \E i \in wide : found = Some(cheats[i])
            /\ (IsSome(found) /\ Unwrap(found).scope = GlobalScope) =>
                    narrow = {} /\ middle = {}
            /\ (narrow = {} /\ middle = {} /\ wide = {}) => found = None

\* C16 witness: a1 has a prank of each of the three scopes and active_for
\* gives the Address-scoped one.
C16_Witness ==
    /\ HeldUnder(AddressScope("a1"), "prank") # {}
    /\ HeldUnder(ClassHashScope("c1"), "prank") # {}
    /\ HeldUnder(GlobalScope, "prank") # {}
    /\ Unwrap(active_for(cheats, "a1", "prank")).scope = AddressScope("a1")

\* C17: after any installs and cancels the registry holds at most one cheat
\* per (scope, kind); right after an install the key holds the installed
\* cheat, the registry grew only if the key was free, and active_for gives
\* that cheat for the address it is scoped to; a cancel of a key that held
\* nothing leaves the registry as it was.
C17_InstallReplaces ==
    /\ \A scope \in Scopes, kind \in CheatKinds :
        Cardinality(HeldUnder(scope, kind)) <= 1
    /\ IsSome(cheat_op) =>
        LET o == Unwrap(cheat_op)
            cheat == [scope |-> o.scope, kind |-> o.kind, value |-> o.value]
            was_held == \E i \in 1..Len(o.before) :
                           o.before[i].scope = o.scope /\ o.before[i].kind = o.kind
        IN  /\ o.op = "install" =>
                /\ \E i \in HeldUnder(o.scope, o.kind) : cheats[i] = cheat
                /\ Len(cheats) = Len(o.before) + (IF was_held THEN 0 ELSE 1)
                /\ o.scope.type = "Address" =>
                       active_for(cheats, o.scope.target, o.kind) = Some(cheat)
            /\ (o.op = "cancel" /\ ~was_held) => cheats = o.before
            /\ o.op = "cancel" => HeldUnder(o.scope, o.kind) = {}

\* C17 witness: a prank on a1 with value 1 was replaced by one with value 2,
\* and then a roll on a1, which is not held, was cancelled.
C17_Witness ==
    /\ IsSome(cheat_op)
    /\ Unwrap(cheat_op).op = "cancel"
    /\ Unwrap(cheat_op).scope = AddressScope("a1")
    /\ Unwrap(cheat_op).kind = "roll"
    /\ cheats = <<[scope |-> AddressScope("a1"), kind |-> "prank", value |-> 2]>>
    /\ cheat_ops = 3

(***************************************************************************)
(* SpecIsolation: MaxRuns invocations of run_from_test_case, interleaved   *)
(* in every order.                                                         *)
(***************************************************************************)
MaxCaseOps == 3       \* hints one test case raises

\* The step ceilings a run's CheatnetState is created with.  CheatnetState::new
\* takes max_steps (lib.rs:24); the call of running.rs:142-145 names the
\* reader only, so both kinds of ceiling are tried.
IsoBudgets == {None, Some(MaxBudget)}

\* The cheats a test case installs
IsoScopes == {AddressScope("a1"), GlobalScope}
IsoKind == "prank"

\* An invocation that takes over the states of an invocation still running
new_run_state_shared(all, r, steps) ==
    LET others == {q \in DOMAIN all : q # r /\ all[q].pc = "running"} IN
    IF others = {}
    THEN [blockifier_state |-> Some(InitialStorage),
          cheatnet_state |-> Some(CheatnetState_new(TestingStateReader, steps))]
    ELSE LET q == CHOOSE q \in others : TRUE IN
         [blockifier_state |-> all[q].blockifier_state,
          cheatnet_state |-> all[q].cheatnet_state]

\* running.rs:121-148: the CachedState and the CheatnetState are locals, built
\* from build_testing_state(predeployed_contracts)
new_run_state(all, r, steps) ==
    [blockifier_state |-> Some(InitialStorage),
     cheatnet_state |-> Some(CheatnetState_new(TestingStateReader, steps))]

\* The outcomes decrease_available_steps(used_steps) can have on s: unwrap
\* panics when no budget is tracked; a debit above the budget panics in a
\* build with overflow checks and wraps around in one without
debit_outcomes(s, used_steps) ==
    IF s.available_steps = None
    THEN {[panicked |-> TRUE, state |-> s]}
    ELSE IF U32SubOverflows(Unwrap(s.available_steps), ToU32(used_steps))
    THEN {[panicked |-> TRUE, state |-> s],
          [panicked |-> FALSE, state |-> decrease_available_steps(s, used_steps)]}
    ELSE {[panicked |-> FALSE, state |-> decrease_available_steps(s, used_steps)]}

CaseRunning(r) == runs[r].pc = "running" /\ runs[r].hints < MaxCaseOps

\* What a hint of test case r leaves of its locals: a panic unwinds the
\* invocation and drops them
AfterHint(run, panicked, bs, cns) ==
    [run EXCEPT !.hints = @ + 1,
                !.pc = IF panicked THEN "panicked" ELSE @,
                !.blockifier_state = IF panicked THEN None ELSE bs,
                !.cheatnet_state = IF panicked THEN None ELSE cns]

\* run_from_test_case is called for test case r and builds its states
CaseSetup(r) ==
    /\ runs[r].pc = "waiting"
    /\ \E steps \in IsoBudgets :
        LET st == new_run_state(runs, r, steps) IN
        /\ runs' = [runs EXCEPT ![r] = [@ EXCEPT !.pc = "running",
                        !.blockifier_state = st.blockifier_state,
                        !.cheatnet_state = st.cheatnet_state]]
        /\ own' = [own EXCEPT ![r].max_steps = steps]
    /\ UNCHANGED exceptIso

\* test case r raises a storage-write syscall
CaseStorageWrite(r) ==
    /\ CaseRunning(r)
    /\ \E k \in StorageKeys, v \in {0, 7} :
        LET h == execute_hint(Unwrap(runs[r].blockifier_state),
                              HintRequest("storage_write", k, v, FALSE)) IN
        /\ runs' = [runs EXCEPT ![r] =
                        AfterHint(@, FALSE, Some(h.state), @.cheatnet_state)]
        /\ own' = [own EXCEPT ![r].storage[k] = Some(v)]
    /\ UNCHANGED exceptIso

\* the value a test case expects at k after its own writes alone
OwnValue(r, k) == IF IsSome(own[r].storage[k]) THEN Unwrap(own[r].storage[k]) ELSE 0

\* test case r raises a storage-read syscall
CaseStorageRead(r) ==
    /\ CaseRunning(r)
    /\ \E k \in StorageKeys :
        LET h == execute_hint(Unwrap(runs[r].blockifier_state),
                              HintRequest("storage_read", k, 0, FALSE)) IN
        runs' = [runs EXCEPT ![r] =
                    [AfterHint(@, FALSE, Some(h.state), @.cheatnet_state)
                        EXCEPT !.observed = Some([key |-> k, answer |-> h.answer,
                                                  expected |-> OwnValue(r, k)])]]
    /\ UNCHANGED <<own, exceptIso>>

\* test case r raises a deploy cheatcode
CaseDeploy(r) ==
    /\ CaseRunning(r)
    /\ LET s == Unwrap(runs[r].cheatnet_state) IN
        \E outcome \in increment_deploy_salt_base(s) :
            runs' = [runs EXCEPT ![r] =
                        [AfterHint(@, outcome.panicked, @.blockifier_state, Some(outcome.state))
                            EXCEPT !.last_salt = Some(get_salt(s))]]
    /\ own' = [own EXCEPT ![r].deploys = @ + 1]
    /\ UNCHANGED exceptIso

\* test case r raises a cheatcode that installs a cheat
CaseInstallCheat(r) ==
    /\ CaseRunning(r)
    /\ \E scope \in IsoScopes, value \in CheatValues :
        LET s == Unwrap(runs[r].cheatnet_state)
            cheat == [scope |-> scope, kind |-> IsoKind, value |-> value] IN
        /\ runs' = [runs EXCEPT ![r] =
                        AfterHint(@, FALSE, @.blockifier_state,
                            Some([s EXCEPT !.cheatcode_state = install(@, cheat)]))]
        /\ own' = [own EXCEPT ![r].cheats =
                        {c \in @ : c.scope # scope} \cup {cheat}]
    /\ UNCHANGED exceptIso

\* the steps of a hint of test case r are debited from its budget
CaseDebit(r) ==
    /\ CaseRunning(r)
    /\ \E used_steps \in 1..MaxUsedSteps :
        /\ \E outcome \in debit_outcomes(Unwrap(runs[r].cheatnet_state), used_steps) :
            runs' = [runs EXCEPT ![r] =
                        AfterHint(@, outcome.panicked, @.blockifier_state, Some(outcome.state))]
        /\ own' = [own EXCEPT ![r].debited = @ + used_steps]
    /\ UNCHANGED exceptIso

\* running.rs:150-173: run_from_test_case returns and its locals are dropped
CaseEnd(r) ==
    /\ runs[r].pc = "running"
    /\ runs' = [runs EXCEPT ![r] = [@ EXCEPT !.pc = "done",
                    !.blockifier_state = None, !.cheatnet_state = None]]
    /\ UNCHANGED <<own, exceptIso>>

InitIsolation ==
    /\ AuxIdle
    /\ CoreIdle

NextIsolation ==
    \E r \in RunIds :
        \/ CaseSetup(r)
        \/ CaseStorageWrite(r)
        \/ CaseStorageRead(r)
        \/ CaseDeploy(r)
        \/ CaseInstallCheat(r)
        \/ CaseDebit(r)
        \/ CaseEnd(r)

SpecIsolation == InitIsolation /\ [][NextIsolation]_vars

\* the cheat a test case expects for a1 after its own installs alone
OwnCheatFor(r, scope) == {c \in own[r].cheats : c.scope = scope}

\* the budget a test case expects after its own debits alone: what is left
\* of the ceiling it was created with, counted down around zero
OwnBudget(r) ==
    LET ceiling == Unwrap(own[r].max_steps)
        spent == own[r].debited IN
    IF spent <= ceiling THEN <<0, ceiling - spent>>
    ELSE <<U32Half - 1, U32Half - (spent - ceiling)>>

\* C15: whatever the interleaving, a running test case holds a CachedState
\* with exactly its own writes, and a CheatnetState whose CachedState is as
\* created, whose registry holds exactly the cheats it installed itself,
\* whose salt counter is the number of its own deployments and whose step
\* budget is the ceiling it was created with less its own debits; what it
\* reads is what it wrote itself, or zero, the cheat active for a1 is its
\* own, and the last salt it was handed is its own; a test case that is not
\* running holds no state.
C15_RunsIsolated ==
    \A r \in RunIds :
        /\ runs[r].pc = "running" =>
            LET bs == Unwrap(runs[r].blockifier_state)
                s == Unwrap(runs[r].cheatnet_state) IN
            /\ bs = [cache |-> own[r].storage, state |-> build_testing_state]
            /\ \A k \in StorageKeys :
                CachedState_get_storage_at(bs, k) = StateOk(OwnValue(r, k))
            /\ s.blockifier_state = CachedState_new(TestingStateReader)
            /\ {s.cheatcode_state[i] : i \in 1..Len(s.cheatcode_state)} = own[r].cheats
            /\ Len(s.cheatcode_state) = Cardinality(own[r].cheats)
            /\ LET found == active_for(s.cheatcode_state, "a1", IsoKind) IN
                IF OwnCheatFor(r, AddressScope("a1")) # {}
                THEN IsSome(found) /\ Unwrap(found) \in OwnCheatFor(r, AddressScope("a1"))
                ELSE IF OwnCheatFor(r, GlobalScope) # {}
                THEN IsSome(found) /\ Unwrap(found) \in OwnCheatFor(r, GlobalScope)
                ELSE found = None
            /\ s.deploy_salt_base = ToU32(own[r].deploys)
            /\ own[r].max_steps = None => s.available_steps = None /\ own[r].debited = 0
            /\ IsSome(own[r].max_steps) => s.available_steps = Some(OwnBudget(r))
        /\ runs[r].pc # "running" =>
            runs[r].blockifier_state = None /\ runs[r].cheatnet_state = None
        /\ IsSome(runs[r].last_salt) =>
            Unwrap(runs[r].last_salt) = ToU32(own[r].deploys - 1)
        /\ IsSome(runs[r].observed) =>
            Unwrap(runs[r].observed).answer =
                HintAnswer(Some(Unwrap(runs[r].observed).expected), FALSE)

\* C15 witness: test case 1 wrote 7 to K, installed a prank on a1 and deployed
\* once, while test case 2, created with a step ceiling and started
\* meanwhile, debited steps and read K as 0; it holds no cheat and still has
\* salt 0 to hand out, and test case 1 has no budget debited.
C15_Witness ==
    /\ runs[1].pc = "running"
    /\ runs[2].pc = "running"
    /\ CachedState_get_storage_at(Unwrap(runs[1].blockifier_state), "K") = StateOk(7)
    /\ Len(Unwrap(runs[1].cheatnet_state).cheatcode_state) = 1
    /\ Unwrap(runs[1].cheatnet_state).deploy_salt_base = ToU32(1)
    /\ Unwrap(runs[1].cheatnet_state).available_steps = Some(ToU32(MaxBudget))
    /\ runs[2].observed = Some([key |-> "K", answer |-> HintAnswer(Some(0), FALSE),
                                 expected |-> 0])
    /\ Unwrap(runs[2].cheatnet_state).cheatcode_state = CheatcodeState_new
    /\ Unwrap(runs[2].cheatnet_state).deploy_salt_base = ToU32(0)
    /\ own[2].debited > 0
    /\ Unwrap(runs[2].cheatnet_state).available_steps
           = Some(ToU32(MaxBudget - own[2].debited))

(***************************************************************************)
(* snfoundry.toml: where it is looked for and how it is loaded.            *)
(* A directory is the sequence of its components below the root; a file    *)
(* path is a directory followed by the file name.                          *)
(***************************************************************************)
CONFIG_FILENAME == "snfoundry.toml"

DirNames == {"a", "b"}
DirsUpTo(depth) == UNION {[1..n -> DirNames] : n \in 0..depth}

\* Utf8Path::join
join(path, name) == Append(path, name)

\* An iteration that starts at the root and ends at the path itself
ancestors_from_root(path) == [i \in 1..(Len(path) + 1) |-> SubSeq(path, 1, i - 1)]

\* Utf8Path::ancestors: the path itself, its parent, .., the root
ancestors(path) == [i \in 1..(Len(path) + 1) |-> SubSeq(path, 1, Len(path) + 1 - i)]

\* fs::metadata(file).is_ok()
metadata_is_ok(fs, file) == \E d \in fs : file = join(d, CONFIG_FILENAME)

PathOk(path) == [tag |-> "Ok", path |-> Some(path), error |-> None]
PathErr(message) == [tag |-> "Err", path |-> None, error |-> Some(message)]

\* Result::ok
result_ok(r) == r.path

\* search_config_upwards_relative_to(current_dir)
search_config_upwards_relative_to(fs, current_dir) ==
    LET paths == ancestors(current_dir)
        hits == {i \in 1..Len(paths) : metadata_is_ok(fs, join(paths[i], CONFIG_FILENAME))}
    IN  IF hits = {}
        THEN PathErr("Failed to find snfoundry.toml - not found in current nor any parent directories")
        ELSE PathOk(join(paths[CHOOSE i \in hits : \A j \in hits : i <= j], CONFIG_FILENAME))

\* search_config_upwards_relative_to is called
SearchConfigUpwards ==
    /\ search_result = None
    /\ search_result' = Some(search_config_upwards_relative_to(fs_configs, search_dir))
    /\ UNCHANGED <<fs_configs, raw_shape, search_dir, loadVars, exceptConfig>>

InitSearch ==
    /\ fs_configs \in SUBSET DirsUpTo(MaxDepth)
    /\ search_dir \in DirsUpTo(MaxDepth)
    /\ search_result = None
    /\ raw_shape = "full"
    /\ LoadIdle
    /\ DeclareIdle /\ IsoIdle /\ CheatsIdle /\ ScriptIdle /\ LateIdle
    /\ CoreIdle

NextSearch == SearchConfigUpwards

SpecSearch == InitSearch /\ [][NextSearch]_vars

\* d is the directory p or one above it
IsSelfOrAncestor(d, p) == Len(d) <= Len(p) /\ SubSeq(p, 1, Len(d)) = d

\* the directories among p and those above it that hold a config file
HoldersAbove(p) == {d \in fs_configs : IsSelfOrAncestor(d, p)}

\* C19: search_config_upwards_relative_to(dir) returns Ok with the path of
\* snfoundry.toml in the deepest directory, among dir and the directories
\* above it, that holds one, and returns an error exactly when none of them
\* holds one.
C19_NearestConfigFound ==
    IsSome(search_result) =>
        LET r == Unwrap(search_result)
            holders == HoldersAbove(search_dir)
        IN  /\ r.tag = "Err" <=> holders = {}
            /\ holders # {} =>
                \E d \in holders :
                    /\ \A e \in holders : Len(e) <= Len(d)
                    /\ r = PathOk(d \o <<"snfoundry.toml">>)

\* C19 witness: searched from a/b with a config file in a, in the root and
\* in a/a; the one of a is returned.
C19_Witness ==
    /\ search_dir = <<"a", "b">>
    /\ fs_configs = {<<>>, <<"a">>, <<"a", "a">>}
    /\ search_result = Some(PathOk(<<"a", "snfoundry.toml">>))

(***************************************************************************)
(* SpecLoad: load_global_config::<StubConfig>.  A serde_json::Value or     *)
(* toml::Value is <<kind, payload>>: a string, a non-negative integer or a *)
(* table, the set of its <<key, value>> entries.                           *)
(***************************************************************************)
\* the entry of a table under a key
toml_get(table, key) ==
    LET hits == {e \in table : e[1] = key} IN
    IF hits = {} THEN None ELSE Some((CHOOSE e \in hits : TRUE)[2])

JStr(s) == <<"string", s>>
JNum(n) == <<"u64", n>>
JObj(entries) == <<"object", entries>>

\* Value::get(key): None unless the value is a table that has the key
Value_get(value, key) ==
    IF value[1] = "object" THEN toml_get(value[2], key) ELSE None

\* Value::as_str
as_str(value) == IF value[1] = "string" THEN Some(value[2]) ELSE None

\* Value::as_u64 (serde_json), Value::as_integer (toml)
as_u64(value) == IF value[1] = "u64" THEN Some(value[2]) ELSE None

\* <String as PropertyFromCastConfig>::from_toml_value, and the same for
\* Utf8PathBuf
String_from_toml_value(value) == as_str(value)

CfgOk(value) == [tag |-> "Ok", value |-> Some(value), error |-> None]
CfgErr(message) == [tag |-> "Err", value |-> None, error |-> Some(message)]
\* a failed expect(..): the thread panics with the message
CfgPanic(message) == [tag |-> "Panic", value |-> None, error |-> Some(message)]

\* What the snfoundry.toml files hold.  The account of profile p in the file
\* of directory d is the string <<d, p>>, so that a loaded value tells its
\* file and its profile.
\* In a file of shape "ill_typed" the account of the default profile is an
\* integer and profile1 is a string where a table is expected.
Shapes == {"full", "no_default", "no_tool", "ill_typed", "not_toml", "unreadable"}

ProfileEntries(dir, name) == JObj({<<"account", JStr(<<dir, name>>)>>})

\* fs::read_to_string(file) parsed as a toml::Value
parsed_file(shape, file) ==
    LET dir == SubSeq(file, 1, Len(file) - 1) IN
    IF shape = "full"
    THEN JObj({<<"stubtool", JObj({<<"default", ProfileEntries(dir, "default")>>,
                                   <<"profile1", ProfileEntries(dir, "profile1")>>})>>})
    ELSE IF shape = "no_default"
    THEN JObj({<<"stubtool", JObj({<<"profile1", ProfileEntries(dir, "profile1")>>})>>})
    ELSE IF shape = "ill_typed"
    THEN JObj({<<"stubtool", JObj({<<"default", JObj({<<"account", JNum(5)>>})>>,
                                   <<"profile1", JStr(<<dir, "profile1">>)>>})>>})
    ELSE JObj({<<"othertool", JObj({<<"default", ProfileEntries(dir, "default")>>})>>})

\* StubConfig::tool_name()
tool_name == "stubtool"

\* StubConfig::default()
StubConfig_default == [rpc_url |-> <<>>, account |-> <<>>]

\* get_property::<String>(entries, field):
\* entries.get(field).and_then(String::from_toml_value)
get_property(entries, field) ==
    LET value == Value_get(entries, field) IN
    IF IsSome(value) THEN String_from_toml_value(Unwrap(value)) ELSE None

\* Option::unwrap_or
unwrap_or(o, default) == IF IsSome(o) THEN Unwrap(o) ELSE default

\* StubConfig::from_raw(config)
from_raw(config) ==
    CfgOk([rpc_url |-> unwrap_or(get_property(config, "url"), <<>>),
           account |-> unwrap_or(get_property(config, "account"), <<>>)])

\* A selection that falls back to the default profile for every missing name
get_profile_or_default(raw_config, tool, prof) ==
    LET profile_name == unwrap_or(prof, "default")
        config == Value_get(raw_config, tool)
    IN  IF config = None
        THEN CfgPanic(<<"Failed to find sncast config in snfoundry.toml file">>)
        ELSE LET profile_value == Value_get(Unwrap(config), profile_name) IN
             IF IsSome(profile_value) THEN CfgOk(Unwrap(profile_value))
             ELSE CfgOk(unwrap_or(Value_get(Unwrap(config), "default"), JObj({})))

\* get_profile(raw_config, tool, profile)
get_profile(raw_config, tool, prof) ==
    LET profile_name == unwrap_or(prof, "default")
        config == Value_get(raw_config, tool)
    IN  IF config = None
        THEN CfgPanic(<<"Failed to find sncast config in snfoundry.toml file">>)
        ELSE LET profile_value == Value_get(Unwrap(config), profile_name) IN
             IF IsSome(profile_value) THEN CfgOk(Unwrap(profile_value))
             ELSE IF profile_name = "default" THEN CfgOk(JObj({}))
             ELSE CfgErr(<<"Profile [", profile_name, "] not found in config">>)

\* lib.rs:48-56, the Some(path) arm of load_global_config
load_config_file(shape, file, prof) ==
    IF shape = "unreadable"
    THEN CfgPanic(<<"Failed to read snfoundry.toml config file">>)
    ELSE IF shape = "not_toml"
    THEN CfgPanic(<<"Failed to parse snfoundry.toml config file">>)
    ELSE LET got == get_profile(parsed_file(shape, file), tool_name, prof) IN
         IF got.tag = "Ok" THEN from_raw(Unwrap(got.value)) ELSE got

\* the current directory of the process: its path, and whether the path is
\* valid UTF-8
Cwd(dir, utf8) == [dir |-> dir, utf8 |-> utf8]

PathPanic(message) == [tag |-> "Panic", path |-> None, error |-> Some(message)]

\* find_config_file(); dir is what std::env::current_dir() gives, None when it
\* fails.  Utf8PathBuf::try_from(..)? returns the error of a path that is not
\* valid UTF-8.
find_config_file(fs, dir) ==
    IF dir = None THEN PathPanic("Failed to get current directory")
    ELSE IF ~Unwrap(dir).utf8 THEN PathErr("PathBuf contains invalid UTF-8")
    ELSE search_config_upwards_relative_to(fs, Unwrap(dir).dir)

\* A load that fails when no config file is found
load_global_config_strict(fs, shape, path, prof, dir) ==
    LET from_path == IF IsSome(path)
                     THEN result_ok(search_config_upwards_relative_to(fs, Unwrap(path)))
                     ELSE None
    IN  IF IsSome(from_path) THEN load_config_file(shape, Unwrap(from_path), prof)
        ELSE CfgErr(<<"Failed to find snfoundry.toml">>)

\* load_global_config(path, profile); dir is what std::env::current_dir()
\* gives, which find_config_file asks for only when the search from path
\* found nothing.  An Err of find_config_file is dropped by .ok().
load_global_config(fs, shape, path, prof, dir) ==
    LET from_path == IF IsSome(path)
                     THEN result_ok(search_config_upwards_relative_to(fs, Unwrap(path)))
                     ELSE None
    IN  IF IsSome(from_path) THEN load_config_file(shape, Unwrap(from_path), prof)
        ELSE LET found == find_config_file(fs, dir) IN
             IF found.tag = "Panic" THEN CfgPanic(<<Unwrap(found.error)>>)
             ELSE LET from_cwd == result_ok(found) IN
                  IF IsSome(from_cwd) THEN load_config_file(shape, Unwrap(from_cwd), prof)
                  ELSE CfgOk(StubConfig_default)

\* load_global_config is called
LoadGlobalConfig ==
    /\ load_result = None
    /\ load_result' = Some(load_global_config(fs_configs, raw_shape, load_path,
                                               profile, cwd))
    /\ UNCHANGED <<fs_configs, raw_shape, load_path, profile, cwd, searchVars,
                   exceptConfig>>

Profiles == {None, Some("default"), Some("profile1"), Some("profile9")}
OptionalDirs(depth) == {None} \cup {Some(d) : d \in DirsUpTo(depth)}

\* the root is valid UTF-8
CurrentDirs ==
    {None} \cup {Some(Cwd(d, TRUE)) : d \in DirsUpTo(MaxLoadDepth)}
           \cup {Some(Cwd(d, FALSE)) : d \in DirsUpTo(MaxLoadDepth) \ {<<>>}}

\* load_path is a Utf8PathBuf: it is not a directory whose path is not valid
\* UTF-8, nor one below it
CwdFitsPath ==
    (IsSome(cwd) /\ ~Unwrap(cwd).utf8 /\ IsSome(load_path)) =>
        ~IsSelfOrAncestor(Unwrap(cwd).dir, Unwrap(load_path))

InitLoad ==
    /\ fs_configs \in SUBSET DirsUpTo(MaxLoadDepth)
    /\ raw_shape \in Shapes
    /\ load_path \in OptionalDirs(MaxLoadDepth)
    /\ profile \in Profiles
    /\ cwd \in CurrentDirs
    /\ CwdFitsPath
    /\ load_result = None
    /\ SearchIdle
    /\ DeclareIdle /\ IsoIdle /\ CheatsIdle /\ ScriptIdle /\ LateIdle
    /\ CoreIdle

NextLoad == LoadGlobalConfig

SpecLoad == InitLoad /\ [][NextLoad]_vars

\* load_global_config was called with a directory that, like every directory
\* above it, holds no config file
LoadedFromBareDir ==
    /\ IsSome(load_result)
    /\ IsSome(load_path)
    /\ HoldersAbove(Unwrap(load_path)) = {}

\* C20 as stated: load_global_config called with a directory that has no
\* snfoundry.toml in itself or any ancestor returns Ok(T::default()), for
\* any profile.
C20_NoConfigGivesDefault ==
    LoadedFromBareDir => load_result = Some(CfgOk(StubConfig_default))

\* what find_config_file can see: the config files of the current directory
\* and of the directories above it, none when the path of the current
\* directory is not valid UTF-8
SeenFromCwd == IF Unwrap(cwd).utf8 THEN HoldersAbove(Unwrap(cwd).dir) ELSE {}

\* C20 amended: load_global_config called with a directory that has no
\* snfoundry.toml in itself or any ancestor returns Ok(T::default()), for
\* any profile, when the current directory of the process and the
\* directories above it hold none either, or when the path of the current
\* directory is not valid UTF-8.  When they hold one and the path is valid
\* UTF-8, the nearest of those is loaded instead (the default profile of a
\* file that has it gives that file's values), and when the current
\* directory cannot be obtained the call panics.
C20_NoConfigAnywhereGivesDefault ==
    LoadedFromBareDir =>
        /\ (IsSome(cwd) /\ SeenFromCwd = {}) =>
            load_result = Some(CfgOk(StubConfig_default))
        /\ (IsSome(cwd) /\ SeenFromCwd # {}
                /\ raw_shape = "full" /\ profile = None) =>
            \E d \in SeenFromCwd :
                /\ \A e \in SeenFromCwd : Len(e) <= Len(d)
                /\ load_result =
                       Some(CfgOk([rpc_url |-> <<>>, account |-> <<d, "default">>]))
        /\ cwd = None =>
            load_result = Some(CfgPanic(<<"Failed to get current directory">>))

\* C20 witness: called with directory a and profile9 while only b holds a
\* config file and the process runs in a; the default is returned.
C20_Witness ==
    /\ load_path = Some(<<"a">>)
    /\ cwd = Some(Cwd(<<"a">>, TRUE))
    /\ fs_configs = {<<"b">>}
    /\ profile = Some("profile9")
    /\ load_result = Some(CfgOk(StubConfig_default))

(***************************************************************************)
(* SpecProfile: get_profile on every table built from two tools and three  *)
(* profile names.  The account of profile p of tool t is the string        *)
(* <<t, p>>.                                                               *)
(***************************************************************************)
ToolNames == {"stubtool", "othertool"}
ProfileNames == {"default", "profile1", "profile2"}

ToolSection(tool, names) ==
    JObj({<<n, JObj({<<"account", JStr(<<tool, n>>)>>})>> : n \in names})

\* the last is a file in which the tool's entry is an integer, not a table
RawConfigs ==
    {JObj({<<t, ToolSection(t, f[t])>> : t \in tools}) :
        tools \in SUBSET ToolNames, f \in [ToolNames -> SUBSET ProfileNames]}
    \cup {JObj({<<"stubtool", JNum(5)>>})}

ProfileArgs == {None} \cup {Some(n) : n \in ProfileNames \cup {"profile9"}}

\* get_profile(&raw_config, &StubConfig::tool_name(), profile) is called
GetProfile ==
    /\ gp_result = None
    /\ gp_result' = Some(get_profile(gp_config, tool_name, gp_profile))
    /\ UNCHANGED <<gp_config, gp_profile, exceptProfile>>

InitProfile ==
    /\ gp_config \in RawConfigs
    /\ gp_profile \in ProfileArgs
    /\ gp_result = None
    /\ EarlyIdle
    /\ CoreIdle
    /\ CastIdle /\ ScarbIdle /\ HintsDictIdle /\ InitRunIdle

NextProfile == GetProfile

SpecProfile == InitProfile /\ [][NextProfile]_vars

\* the names of the profiles in the section of the tool asked for
ProfilesOfTool ==
    {e[1] : e \in UNION {t[2][2] : t \in {t \in gp_config[2] :
                                          t[1] = "stubtool" /\ t[2][1] = "object"}}}

\* C21: on a config that holds the tool's section, get_profile returns the
\* table of the named profile when the section has it, the name being
\* "default" when no profile is given; it returns an empty table when the
\* missing profile is "default" and the error "Profile [<name>] not found in
\* config" when it has another name.  The table returned is never that of
\* another profile or another tool.
C21_ProfileSelected ==
    (IsSome(gp_result) /\ \E t \in gp_config[2] : t[1] = "stubtool") =>
        LET r == Unwrap(gp_result)
            name == IF gp_profile = None THEN "default" ELSE Unwrap(gp_profile)
        IN  /\ name \in ProfilesOfTool =>
                r = CfgOk(JObj({<<"account", JStr(<<"stubtool", name>>)>>}))
            /\ (name \notin ProfilesOfTool /\ name = "default") => r = CfgOk(JObj({}))
            /\ (name \notin ProfilesOfTool /\ name # "default") =>
                r = CfgErr(<<"Profile [", name, "] not found in config">>)

\* C21 witness: profile2 was asked of a section that has default and
\* profile1 only, next to another tool that has profile2.
C21_Witness ==
    /\ gp_profile = Some("profile2")
    /\ ProfilesOfTool = {"default", "profile1"}
    /\ \E t \in gp_config[2] :
           t[1] = "othertool" /\ t[2] = ToolSection("othertool", {"profile2"})
    /\ gp_result = Some(CfgErr(<<"Profile [", "profile2", "] not found in config">>))

(***************************************************************************)
(* sncast's CastConfig: helpers/scarb_utils.rs (read from the [tool.sncast] *)
(* section of a package) and helpers/configuration.rs (read from a profile  *)
(* of snfoundry.toml).                                                      *)
(*                                                                         *)
(* Values are the <<kind, payload>> pairs of JStr, JNum and JObj.          *)
(***************************************************************************)
u8_MAX == 2^8 - 1
u16_MAX == 2^16 - 1

\* helpers/constants.rs
WAIT_TIMEOUT == 300
WAIT_RETRY_INTERVAL == 5

\* <u8 as PropertyFromCastConfig>::from_toml_value
u8_from_toml_value(value) ==
    LET i == as_u64(value) IN
    IF IsSome(i) /\ Unwrap(i) <= u8_MAX THEN i ELSE None

\* <u16 as PropertyFromCastConfig>::from_toml_value
u16_from_toml_value(value) ==
    LET i == as_u64(value) IN
    IF IsSome(i) /\ Unwrap(i) <= u16_MAX THEN i ELSE None

\* T::from_toml_value for the type of each field of CastConfig
from_toml_value(field, value) ==
    CASE field = "wait-timeout" -> u16_from_toml_value(value)
      [] field = "wait-retry-interval" -> u8_from_toml_value(value)
      [] OTHER -> String_from_toml_value(value)

\* <T as Default>::default() in the place of T::default_value
default_value_derived(field) ==
    CASE field = "wait-timeout" -> 0
      [] field = "wait-retry-interval" -> 0
      [] OTHER -> ""

\* T::default_value for the type of each field of CastConfig
default_value(field) ==
    CASE field = "wait-timeout" -> WAIT_TIMEOUT
      [] field = "wait-retry-interval" -> WAIT_RETRY_INTERVAL
      [] OTHER -> ""

\* scarb_utils::get_property_optional(tool, field)
get_property_optional(tool, field) ==
    LET value == Value_get(tool, field) IN
    IF IsSome(value) THEN from_toml_value(field, Unwrap(value)) ELSE None

\* scarb_utils::get_property(tool, field)
scarb_utils_get_property(tool, field) ==
    LET o == get_property_optional(tool, field) IN
    IF IsSome(o) THEN Unwrap(o) ELSE default_value(field)

\* scarb_utils::get_profile(tool_sncast, profile)
scarb_utils_get_profile(tool_sncast, prof) ==
    IF IsSome(prof)
    THEN LET profile_ == Unwrap(prof)
             value == Value_get(tool_sncast, profile_)
         IN  IF IsSome(value) THEN CfgOk(Unwrap(value))
             ELSE CfgErr(<<"No field [tool.sncast.", profile_, "] found in package">>)
    ELSE CfgOk(tool_sncast)

\* <scarb_utils::CastConfig as Default>::default()
scarb_utils_CastConfig_default ==
    [rpc_url |-> "", account |-> "", accounts_file |-> "", keystore |-> None,
     wait_timeout |-> WAIT_TIMEOUT, wait_retry_interval |-> WAIT_RETRY_INTERVAL]

\* A reading that takes the root section when the profile is missing
from_package_tool_sncast_lenient(package_tool_sncast, prof) ==
    LET selected == scarb_utils_get_profile(package_tool_sncast, prof)
        tool == IF selected.tag = "Err" THEN package_tool_sncast
                ELSE Unwrap(selected.value)
    IN  CfgOk([rpc_url |-> scarb_utils_get_property(tool, "url"),
               account |-> scarb_utils_get_property(tool, "account"),
               accounts_file |-> scarb_utils_get_property(tool, "accounts-file"),
               keystore |-> get_property_optional(tool, "keystore"),
               wait_timeout |-> scarb_utils_get_property(tool, "wait-timeout"),
               wait_retry_interval |->
                   scarb_utils_get_property(tool, "wait-retry-interval")])

\* scarb_utils::CastConfig::from_package_tool_sncast
from_package_tool_sncast(package_tool_sncast, prof) ==
    LET selected == scarb_utils_get_profile(package_tool_sncast, prof) IN
    IF selected.tag = "Err" THEN selected
    ELSE LET tool == Unwrap(selected.value) IN
         CfgOk([rpc_url |-> scarb_utils_get_property(tool, "url"),
                account |-> scarb_utils_get_property(tool, "account"),
                accounts_file |-> scarb_utils_get_property(tool, "accounts-file"),
                keystore |-> get_property_optional(tool, "keystore"),
                wait_timeout |-> scarb_utils_get_property(tool, "wait-timeout"),
                wait_retry_interval |->
                    scarb_utils_get_property(tool, "wait-retry-interval")])

\* configuration::get_property::<T>(entries, field) for the fields of
\* CastConfig
configuration_get_property(entries, field) ==
    LET value == Value_get(entries, field) IN
    IF IsSome(value) THEN from_toml_value(field, Unwrap(value)) ELSE None

\* ValidatedWaitParams::new(retry_interval, timeout)
ValidatedWaitParams_new(retry_interval, timeout) ==
    [timeout |-> timeout, retry_interval |-> retry_interval]

\* ValidatedWaitParams::default()
ValidatedWaitParams_default ==
    ValidatedWaitParams_new(WAIT_RETRY_INTERVAL, WAIT_TIMEOUT)

\* <configuration::CastConfig as Default>::default(), derived
configuration_CastConfig_default ==
    [rpc_url |-> "", account |-> "", accounts_file |-> "", keystore |-> None,
     wait_params |-> ValidatedWaitParams_default]

\* A from_raw that hands the two wait values over in the other order
CastConfig_from_raw_swapped(config) ==
    CfgOk([rpc_url |-> unwrap_or(configuration_get_property(config, "url"), ""),
           account |-> unwrap_or(configuration_get_property(config, "account"), ""),
           accounts_file |->
               unwrap_or(configuration_get_property(config, "accounts-file"), ""),
           keystore |-> configuration_get_property(config, "keystore"),
           wait_params |-> ValidatedWaitParams_new(
               unwrap_or(configuration_get_property(config, "wait-timeout"),
                         WAIT_TIMEOUT),
               unwrap_or(configuration_get_property(config, "wait-retry-interval"),
                         WAIT_RETRY_INTERVAL))])

\* <configuration::CastConfig as GlobalConfig>::from_raw(config)
CastConfig_from_raw(config) ==
    CfgOk([rpc_url |-> unwrap_or(configuration_get_property(config, "url"), ""),
           account |-> unwrap_or(configuration_get_property(config, "account"), ""),
           accounts_file |->
               unwrap_or(configuration_get_property(config, "accounts-file"), ""),
           keystore |-> configuration_get_property(config, "keystore"),
           wait_params |-> ValidatedWaitParams_new(
               unwrap_or(configuration_get_property(config, "wait-retry-interval"),
                         WAIT_RETRY_INTERVAL),
               unwrap_or(configuration_get_property(config, "wait-timeout"),
                         WAIT_TIMEOUT))])

(***************************************************************************)
(* SpecCastConfig: both readings applied to every section built from the   *)
(* six fields, each absent, well-typed or ill-typed (a number for a        *)
(* string, a string for a number, a number beyond the field's width), with *)
(* or without a profile table.                                             *)
(***************************************************************************)
Entry(key, choice) == IF IsSome(choice) THEN {<<key, Unwrap(choice)>>} ELSE {}

UrlChoices == {None, Some(JStr("http://127.0.0.1:5055/rpc")), Some(JNum(7))}
AccountChoices == {None, Some(JStr("user2"))}
AccountsFileChoices == {None, Some(JStr("accounts.json"))}
KeystoreChoices == {None, Some(JStr("keystore.json"))}
WaitTimeoutChoices ==
    {None, Some(JNum(500)), Some(JNum(u16_MAX + 1)), Some(JStr("500"))}
WaitRetryIntervalChoices == {None, Some(JNum(10)), Some(JNum(u8_MAX + 1))}

\* [tool.sncast.myprofile] of tests/data/contracts/constructor_with_params
MyProfile ==
    JObj({<<"account", JStr("user1")>>, <<"url", JStr("http://profile/rpc")>>,
          <<"wait-timeout", JNum(100)>>})

ProfileChoices == {None, Some(MyProfile)}

Sections ==
    {JObj(Entry("url", u) \cup Entry("account", a) \cup Entry("accounts-file", af)
          \cup Entry("keystore", k) \cup Entry("wait-timeout", wt)
          \cup Entry("wait-retry-interval", wr) \cup Entry("myprofile", p)) :
        u \in UrlChoices, a \in AccountChoices, af \in AccountsFileChoices,
        k \in KeystoreChoices, wt \in WaitTimeoutChoices,
        wr \in WaitRetryIntervalChoices, p \in ProfileChoices}

CastProfiles == {None, Some("myprofile"), Some("mariusz"), Some("account")}

\* CastConfig::from_package_tool_sncast(package_tool_sncast, profile)
FromPackageToolSncast ==
    /\ cc_result = None
    /\ cc_result' = Some(from_package_tool_sncast(cc_tool_sncast, cc_profile))
    /\ UNCHANGED <<cc_tool_sncast, cc_profile, cc_raw_result, exceptCast>>

\* CastConfig::from_raw(config) on the same table
FromRaw ==
    /\ cc_raw_result = None
    /\ cc_raw_result' = Some(CastConfig_from_raw(cc_tool_sncast))
    /\ UNCHANGED <<cc_tool_sncast, cc_profile, cc_result, exceptCast>>

InitCastConfig ==
    /\ cc_tool_sncast \in Sections
    /\ cc_profile \in CastProfiles
    /\ cc_result = None
    /\ cc_raw_result = None
    /\ EarlyIdle
    /\ CoreIdle
    /\ ProfileIdle /\ ScarbIdle /\ HintsDictIdle /\ InitRunIdle

NextCastConfig == FromPackageToolSncast \/ FromRaw

SpecCastConfig == InitCastConfig /\ [][NextCastConfig]_vars

(***************************************************************************)
(* parse_scarb_config and get_package_metadata (helpers/scarb_utils.rs).   *)
(* The scarb commands are the environment: `scarb manifest-path` gives a   *)
(* path (of a file that may not exist) or fails, `scarb metadata` gives    *)
(* the packages of the workspace or fails, or scarb is not installed.  A   *)
(* package is [name, tool], tool being manifest_metadata.tool: None or     *)
(* Some(table).                                                            *)
(***************************************************************************)
MaxPackages == 2

\* get_scarb_manifest(): the outcome of the command, with the context added
\* by parse_scarb_config on failure
ManifestOutcomes ==
    {CfgOk("Scarb.toml"), CfgErr(<<"Failed to obtain manifest path from scarb">>)}

\* ScarbCommand::new().ensure_available() failed (the text is scarb_api's,
\* its quotes left out); `scarb metadata` ran and failed
ScarbUnavailable ==
    [tag |-> "Unavailable", value |-> None,
     error |-> Some(<<"Cannot find scarb binary in PATH">>)]
MetadataCommandError == CfgErr(<<"scarb metadata exited with error">>)

\* execute_scarb_metadata_command(command): command.exec().context(format!(..)).
\* The text of the context is built before the outcome of exec is looked at,
\* from env::current_dir().expect(..).into_os_string().into_string().expect(..):
\* both expects can panic whatever the command gave.
execute_scarb_metadata_command(outcome, dir) ==
    IF dir = None THEN CfgPanic(<<"Failed to access the current directory">>)
    ELSE IF ~Unwrap(dir).utf8
    THEN CfgPanic(<<"Failed to convert current directory into a string">>)
    ELSE IF outcome.tag = "Ok" THEN outcome
    ELSE CfgErr(<<"Failed to read the `Scarb.toml` manifest file. Doesn't exist in the current or parent directories = ", Unwrap(dir).dir>>)

\* get_scarb_metadata(manifest_path): get_scarb_metadata_command(..)?, which
\* fails when scarb is not available, then the command is executed
get_scarb_metadata(outcome, dir) ==
    IF outcome.tag = "Unavailable" THEN CfgErr(Unwrap(outcome.error))
    ELSE execute_scarb_metadata_command(outcome, dir)

\* get_package_metadata_by_name(metadata, package_name)
get_package_metadata_by_name(packages, package_name) ==
    LET hits == {i \in 1..Len(packages) : packages[i].name = package_name} IN
    IF hits = {}
    THEN CfgErr(<<"Package ", package_name, " not found in scarb metadata">>)
    ELSE CfgOk(packages[CHOOSE i \in hits : \A j \in hits : i <= j])

\* A default selection that takes the first of several packages
get_default_package_metadata_first(packages) ==
    IF Len(packages) = 0 THEN CfgErr(<<"No package found in metadata">>)
    ELSE CfgOk(packages[1])

\* get_default_package_metadata(metadata)
get_default_package_metadata(packages) ==
    CASE Len(packages) = 1 -> CfgOk(packages[1])
      [] Len(packages) = 0 -> CfgErr(<<"No package found in metadata">>)
      [] OTHER -> CfgErr(<<"More than one package found in metadata - specify package using --package flag">>)

\* get_package_metadata(manifest_path, package_name)
get_package_metadata(metadata_outcome, package_name, dir) ==
    LET metadata == get_scarb_metadata(metadata_outcome, dir) IN
    IF metadata.tag # "Ok" THEN metadata
    ELSE IF IsSome(package_name)
         THEN get_package_metadata_by_name(Unwrap(metadata.value),
                                           Unwrap(package_name))
         ELSE get_default_package_metadata(Unwrap(metadata.value))

\* get_package_tool_sncast(metadata)
get_package_tool_sncast(package) ==
    IF package.tool = None
    THEN CfgErr(<<"No field [tool] found in package">>)
    ELSE LET tool_sncast == toml_get(Unwrap(package.tool), "sncast") IN
         IF tool_sncast = None
         THEN CfgErr(<<"No field [tool.sncast] found in package">>)
         ELSE CfgOk(Unwrap(tool_sncast))

\* The rest of parse_scarb_config once manifest_path is known
parse_scarb_config_at(files, metadata_outcome, prof, manifest_path, package_name, dir) ==
    IF manifest_path \notin files THEN CfgOk(scarb_utils_CastConfig_default)
    ELSE LET metadata == get_package_metadata(metadata_outcome, package_name, dir) IN
         IF metadata.tag = "Panic" THEN metadata
         ELSE IF metadata.tag = "Err"
         THEN CfgPanic(<<"Failed to fetch package metadata">>)
         ELSE LET package_tool_sncast ==
                      get_package_tool_sncast(Unwrap(metadata.value))
              IN  IF package_tool_sncast.tag = "Err"
                  THEN CfgOk(scarb_utils_CastConfig_default)
                  ELSE from_package_tool_sncast(
                           Unwrap(package_tool_sncast.value), prof)

\* A parse_scarb_config that treats a missing explicit path like a missing
\* manifest of the current directory
parse_scarb_config_fallback(files, manifest, metadata, prof, path, package_name, dir) ==
    IF IsSome(path)
    THEN parse_scarb_config_at(files, metadata, prof, Unwrap(path),
                               package_name, dir)
    ELSE IF manifest.tag = "Err" THEN manifest
         ELSE parse_scarb_config_at(files, metadata, prof,
                                    Unwrap(manifest.value), package_name, dir)

\* parse_scarb_config(profile, path, package_name)
parse_scarb_config(files, manifest, metadata, prof, path, package_name, dir) ==
    IF IsSome(path)
    THEN IF Unwrap(path) \notin files
         THEN CfgErr(<<"Failed to locate file at path = ", Unwrap(path)>>)
         ELSE parse_scarb_config_at(files, metadata, prof, Unwrap(path),
                                    package_name, dir)
    ELSE IF manifest.tag = "Err" THEN manifest
         ELSE parse_scarb_config_at(files, metadata, prof,
                                    Unwrap(manifest.value), package_name, dir)

(***************************************************************************)
(* SpecScarb                                                               *)
(***************************************************************************)
ManifestPaths == {"Scarb.toml", "tests/data/contracts/map/Scarb.toml"}
PathArgs ==
    {None, Some("tests/data/contracts/map/Scarb.toml"), Some("whatever/Scarb.toml")}

PackageNames == {"map", "package1", "package2"}
PackageArgs == {None, Some("map"), Some("whatever")}

\* [tool.sncast] with a profile, and one whose url and wait values cannot be
\* read as the fields' types
GoodSection ==
    JObj({<<"url", JStr("http://127.0.0.1:5055/rpc")>>, <<"account", JStr("user2")>>,
          <<"wait-timeout", JNum(500)>>, <<"myprofile", MyProfile>>})
OddSection ==
    JObj({<<"url", JNum(7)>>, <<"keystore", JStr("keystore.json")>>,
          <<"wait-timeout", JNum(u16_MAX + 1)>>,
          <<"wait-retry-interval", JNum(10)>>})

ToolChoices ==
    {None, Some({<<"snforge", JObj({})>>}),
     Some({<<"sncast", GoodSection>>}), Some({<<"sncast", OddSection>>})}

Packages == [name : PackageNames, tool : ToolChoices]

\* the workspaces of up to MaxPackages packages, no name twice
Workspaces ==
    UNION {{w \in [1..n -> Packages] :
                \A i, j \in 1..n : w[i].name = w[j].name => i = j} :
           n \in 0..MaxPackages}

MetadataOutcomes ==
    {CfgOk(w) : w \in Workspaces} \cup {MetadataCommandError, ScarbUnavailable}

\* the current directory: gone, or one whose path is or is not valid UTF-8
ScarbCwds == {None, Some(Cwd("/work", TRUE)), Some(Cwd("/w?rk", FALSE))}

ScarbProfiles == {None, Some("myprofile"), Some("mariusz")}

\* parse_scarb_config(&profile, &path, &package_name) is called
ParseScarbConfig ==
    /\ sc_result = None
    /\ sc_result' = Some(parse_scarb_config(sc_files, sc_manifest, sc_metadata,
                                            sc_profile, sc_path, sc_package_name,
                                            sc_cwd))
    /\ UNCHANGED <<sc_files, sc_manifest, sc_metadata, sc_cwd, sc_profile, sc_path,
                   sc_package_name, pm_result, exceptScarb>>

\* get_package_metadata(&manifest_path, &package_name) is called
GetPackageMetadata ==
    /\ pm_result = None
    /\ pm_result' = Some(get_package_metadata(sc_metadata, sc_package_name, sc_cwd))
    /\ UNCHANGED <<sc_files, sc_manifest, sc_metadata, sc_cwd, sc_profile, sc_path,
                   sc_package_name, sc_result, exceptScarb>>

InitScarb ==
    /\ sc_files \in SUBSET ManifestPaths
    /\ sc_manifest \in ManifestOutcomes
    /\ sc_metadata \in MetadataOutcomes
    /\ sc_cwd \in ScarbCwds
    /\ sc_cwd = None => sc_files = {}
    /\ sc_profile \in ScarbProfiles
    /\ sc_path \in PathArgs
    /\ sc_package_name \in PackageArgs
    /\ sc_result = None
    /\ pm_result = None
    /\ EarlyIdle
    /\ CoreIdle
    /\ ProfileIdle /\ CastIdle /\ HintsDictIdle /\ InitRunIdle

NextScarb == ParseScarbConfig \/ GetPackageMetadata

SpecScarb == InitScarb /\ [][NextScarb]_vars

(***************************************************************************)
(* Properties of parse_scarb_config and get_package_metadata               *)
(***************************************************************************)
\* the manifest path parse_scarb_config works on, when it gets one
ScManifestPath ==
    IF IsSome(sc_path) THEN sc_path
    ELSE IF sc_manifest.tag = "Ok" THEN sc_manifest.value ELSE None

OnExistingManifest == IsSome(ScManifestPath) /\ Unwrap(ScManifestPath) \in sc_files

\* get_scarb_metadata gives the metadata: `scarb metadata` succeeded, in a
\* current directory that exists and whose path is valid UTF-8
MetadataRead == sc_metadata.tag = "Ok" /\ IsSome(sc_cwd) /\ Unwrap(sc_cwd).utf8

\* the packages named as asked, or all of them when no name is given
ScCandidates ==
    IF ~MetadataRead THEN {}
    ELSE LET ps == Unwrap(sc_metadata.value) IN
         {ps[i] : i \in {i \in 1..Len(ps) :
                            sc_package_name = None \/ ps[i].name = Unwrap(sc_package_name)}}

\* exactly one package answers the request
PackageChosen == Cardinality(ScCandidates) = 1
ThePackage == CHOOSE pkg \in ScCandidates : TRUE

SncastEntries(pkg) ==
    IF pkg.tool = None THEN {} ELSE {e \in Unwrap(pkg.tool) : e[1] = "sncast"}
HasSncast(pkg) == SncastEntries(pkg) # {}
SncastOf(pkg) == (CHOOSE e \in SncastEntries(pkg) : TRUE)[2]

Present(section, key) ==
    section[1] = "object" /\ \E e \in section[2] : e[1] = key
ValueOf(section, key) == (CHOOSE e \in section[2] : e[1] = key)[2]

FieldKeys ==
    {"url", "account", "accounts-file", "keystore", "wait-timeout",
     "wait-retry-interval"}

\* the field of the config has the value v of the section
HoldsValue(config, key, v) ==
    CASE key = "url" -> v[1] = "string" /\ config.rpc_url = v[2]
      [] key = "account" -> v[1] = "string" /\ config.account = v[2]
      [] key = "accounts-file" -> v[1] = "string" /\ config.accounts_file = v[2]
      [] key = "keystore" -> v[1] = "string" /\ config.keystore = Some(v[2])
      [] key = "wait-timeout" -> v[1] = "u64" /\ config.wait_timeout = v[2]
      [] key = "wait-retry-interval" ->
             v[1] = "u64" /\ config.wait_retry_interval = v[2]

\* the field of the config has its default
HoldsDefault(config, key) ==
    CASE key = "url" -> config.rpc_url = ""
      [] key = "account" -> config.account = ""
      [] key = "accounts-file" -> config.accounts_file = ""
      [] key = "keystore" -> config.keystore = None
      [] key = "wait-timeout" -> config.wait_timeout = 300
      [] key = "wait-retry-interval" -> config.wait_retry_interval = 5

\* v is a value of the field's type: a string, or an integer of the width
\* of the field
Readable(key, v) ==
    CASE key = "wait-timeout" -> v[1] = "u64" /\ v[2] < 65536
      [] key = "wait-retry-interval" -> v[1] = "u64" /\ v[2] < 256
      [] OTHER -> v[1] = "string"

DefaultCastConfig ==
    [rpc_url |-> "", account |-> "", accounts_file |-> "", keystore |-> None,
     wait_timeout |-> 300, wait_retry_interval |-> 5]

\* the section the call reads: [tool.sncast] itself or the profile in it
ProfileIsKey(pkg) == sc_profile = None \/ Present(SncastOf(pkg), Unwrap(sc_profile))
SelectedSection(pkg) ==
    IF sc_profile = None THEN SncastOf(pkg)
    ELSE ValueOf(SncastOf(pkg), Unwrap(sc_profile))

\* C22: parse_scarb_config given an explicit manifest path that does not
\* exist returns the error "Failed to locate file at path = <path>": it
\* neither panics nor returns a configuration.
C22_MissingPathIsError ==
    (IsSome(sc_result) /\ IsSome(sc_path) /\ Unwrap(sc_path) \notin sc_files) =>
        Unwrap(sc_result) =
            CfgErr(<<"Failed to locate file at path = ", Unwrap(sc_path)>>)

\* C22 witness: the explicit path is missing while the manifest of the
\* current directory exists and holds a package with a [tool.sncast] section
C22_Witness ==
    /\ sc_path = Some("whatever/Scarb.toml")
    /\ "Scarb.toml" \in sc_files
    /\ sc_manifest.tag = "Ok"
    /\ PackageChosen /\ HasSncast(ThePackage)
    /\ IsSome(sc_result)
    /\ Unwrap(sc_result).tag = "Err"

\* C23 as stated: on an existing manifest, with a package chosen,
\* parse_scarb_config returns the default CastConfig when the package has no
\* [tool.sncast] section, and otherwise a config in which every field present
\* in the selected section has the section's value and every absent field
\* has its default.
C23_FieldsFromSection ==
    (IsSome(sc_result) /\ OnExistingManifest /\ PackageChosen) =>
        LET r == Unwrap(sc_result) IN
        IF ~HasSncast(ThePackage) THEN r = CfgOk(DefaultCastConfig)
        ELSE ProfileIsKey(ThePackage) =>
             /\ r.tag = "Ok"
             /\ \A key \in FieldKeys :
                    LET section == SelectedSection(ThePackage) IN
                    IF Present(section, key)
                    THEN HoldsValue(Unwrap(r.value), key, ValueOf(section, key))
                    ELSE HoldsDefault(Unwrap(r.value), key)

\* C23 amended: the same, but a field has the section's value only when
\* that value is of the field's type (a string; an integer below 65536 for
\* the wait timeout, below 256 for the retry interval); a field that is
\* absent or holds any other value has its default.
C23_ReadableFieldsFromSection ==
    (IsSome(sc_result) /\ OnExistingManifest /\ PackageChosen) =>
        LET r == Unwrap(sc_result) IN
        IF ~HasSncast(ThePackage) THEN r = CfgOk(DefaultCastConfig)
        ELSE ProfileIsKey(ThePackage) =>
             /\ r.tag = "Ok"
             /\ \A key \in FieldKeys :
                    LET section == SelectedSection(ThePackage) IN
                    IF Present(section, key) /\ Readable(key, ValueOf(section, key))
                    THEN HoldsValue(Unwrap(r.value), key, ValueOf(section, key))
                    ELSE HoldsDefault(Unwrap(r.value), key)

\* C23 witness: the section read has a number for the url, a wait timeout
\* beyond 16 bits, a keystore and a retry interval, and no account
C23_Witness ==
    /\ OnExistingManifest /\ PackageChosen
    /\ HasSncast(ThePackage) /\ SncastOf(ThePackage) = OddSection
    /\ sc_profile = None
    /\ IsSome(sc_result)
    /\ Unwrap(sc_result) =
           CfgOk([rpc_url |-> "", account |-> "", accounts_file |-> "",
                  keystore |-> Some("keystore.json"), wait_timeout |-> 300,
                  wait_retry_interval |-> 10])

\* C24: on an existing manifest whose chosen package has a [tool.sncast]
\* section, parse_scarb_config with a profile name that is not a key of the
\* section returns the error "No field [tool.sncast.<profile>] found in
\* package"; with no profile it reads the [tool.sncast] section itself.
C24_ProfileOfSection ==
    (IsSome(sc_result) /\ OnExistingManifest /\ PackageChosen
        /\ HasSncast(ThePackage)) =>
        LET r == Unwrap(sc_result)
            section == SncastOf(ThePackage)
        IN  /\ (IsSome(sc_profile) /\ ~Present(section, Unwrap(sc_profile))) =>
                r = CfgErr(<<"No field [tool.sncast.", Unwrap(sc_profile),
                             "] found in package">>)
            /\ sc_profile = None =>
                /\ r.tag = "Ok"
                /\ \A key \in {k \in FieldKeys : Present(section, k)} :
                       Readable(key, ValueOf(section, key)) =>
                           HoldsValue(Unwrap(r.value), key, ValueOf(section, key))

\* C24 witness: profile mariusz was asked of a section that has the profile
\* myprofile only
C24_Witness ==
    /\ OnExistingManifest /\ PackageChosen
    /\ HasSncast(ThePackage) /\ SncastOf(ThePackage) = GoodSection
    /\ sc_profile = Some("mariusz")
    /\ sc_result = Some(CfgErr(<<"No field [tool.sncast.", "mariusz",
                                 "] found in package">>))

\* C25: once get_scarb_metadata has given the metadata,
\* get_package_metadata with a name returns
\* the package of that name or the error "Package <name> not found in scarb
\* metadata"; without a name it returns the only package, fails with "No
\* package found in metadata" when there is none and with "More than one
\* package found in metadata - specify package using --package flag" when
\* there are several.
C25_PackageSelected ==
    (IsSome(pm_result) /\ MetadataRead) =>
        LET r == Unwrap(pm_result)
            ps == Unwrap(sc_metadata.value)
        IN  IF IsSome(sc_package_name)
            THEN IF ScCandidates # {}
                 THEN /\ r.tag = "Ok"
                      /\ Unwrap(r.value) \in ScCandidates
                      /\ Unwrap(r.value).name = Unwrap(sc_package_name)
                 ELSE r = CfgErr(<<"Package ", Unwrap(sc_package_name),
                                  " not found in scarb metadata">>)
            ELSE CASE Len(ps) = 1 -> r = CfgOk(ps[1])
                   [] Len(ps) = 0 -> r = CfgErr(<<"No package found in metadata">>)
                   [] OTHER -> r = CfgErr(<<"More than one package found in metadata - specify package using --package flag">>)

\* C25 witness: no name was given for a workspace of two packages, and the
\* call failed
C25_Witness ==
    /\ MetadataRead
    /\ Len(Unwrap(sc_metadata.value)) = 2
    /\ sc_package_name = None
    /\ IsSome(pm_result)
    /\ Unwrap(pm_result).tag = "Err"

(***************************************************************************)
(* Properties of the two CastConfig                                        *)
(***************************************************************************)
LacksWaitKeys(table) ==
    ~Present(table, "wait-timeout") /\ ~Present(table, "wait-retry-interval")

\* C26: the default CastConfig of helpers/scarb_utils.rs and that of
\* helpers/configuration.rs both have wait timeout 300 and retry interval 5,
\* a config built by from_raw from a table without the two wait keys has
\* the same two values, and with them the number of fetch attempts,
\* timeout / interval, is 60.
C26_DefaultWaitValues ==
    /\ scarb_utils_CastConfig_default.wait_timeout = 300
    /\ scarb_utils_CastConfig_default.wait_retry_interval = 5
    /\ configuration_CastConfig_default.wait_params.timeout = 300
    /\ configuration_CastConfig_default.wait_params.retry_interval = 5
    /\ (IsSome(cc_raw_result) /\ LacksWaitKeys(cc_tool_sncast)) =>
           LET config == Unwrap(Unwrap(cc_raw_result).value) IN
           /\ config.wait_params.timeout = 300
           /\ config.wait_params.retry_interval = 5
           /\ config.wait_params.timeout \div config.wait_params.retry_interval = 60

\* C26 witness: from_raw has read a table that has an account and a url and
\* neither wait key
C26_Witness ==
    /\ IsSome(cc_raw_result)
    /\ LacksWaitKeys(cc_tool_sncast)
    /\ Present(cc_tool_sncast, "account") /\ Present(cc_tool_sncast, "url")
    /\ Unwrap(Unwrap(cc_raw_result).value).account = "user2"
    /\ Unwrap(Unwrap(cc_raw_result).value).wait_params =
           [timeout |-> 300, retry_interval |-> 5]

(***************************************************************************)
(* build_hints_dict (running.rs:50-74): one pass over the instructions.    *)
(* An instruction is [hints, op_size], op_size being body.op_size(): 1, or *)
(* 2 when the instruction has an immediate.  A hint is [kind, name].       *)
(***************************************************************************)
MaxInstructions == 3

Hints ==
    {[kind |-> "Core", name |-> "AllocSegment"],
     [kind |-> "Starknet", name |-> "SystemCall"]}

\* format!("{hint:?}")
Debug(hint) == <<hint.kind, "(", hint.name, ")">>

\* hint_to_hint_params(hint): the params carry the hint's string as code
hint_to_hint_params(hint) == [code |-> Debug(hint), accessible_scopes |-> <<>>]

\* HashMap::insert(key, value): the value replaces the one the key had
HashMap_insert(map, key, value) ==
    {e \in map : e[1] # key} \cup {<<key, value>>}

RECURSIVE register_hints(_, _)
\* for hint in &instruction.hints { string_to_hint.insert(..) }
register_hints(string_to_hint, hints) ==
    IF hints = <<>> THEN string_to_hint
    ELSE register_hints(
             HashMap_insert(string_to_hint, Debug(Head(hints)), Head(hints)),
             Tail(hints))

\* instruction.hints.iter().map(hint_to_hint_params).collect()
hint_params_of(hints) == [i \in 1..Len(hints) |-> hint_to_hint_params(hints[i])]

\* An offset that counts instructions, not their sizes
advance_offset_by_one(hint_offset, instruction) == hint_offset + 1

\* hint_offset += instruction.body.op_size()
advance_offset(hint_offset, instruction) == hint_offset + instruction.op_size

\* one iteration of `for instruction in instructions`
BuildHintsStep ==
    /\ bh_returned = None
    /\ bh_next <= Len(bh_instructions)
    /\ LET instruction == bh_instructions[bh_next] IN
       /\ IF instruction.hints # <<>>
          THEN /\ bh_string_to_hint' =
                      register_hints(bh_string_to_hint, instruction.hints)
               /\ bh_hints_dict' =
                      HashMap_insert(bh_hints_dict, bh_hint_offset,
                                     hint_params_of(instruction.hints))
          ELSE UNCHANGED <<bh_string_to_hint, bh_hints_dict>>
       /\ bh_hint_offset' = advance_offset(bh_hint_offset, instruction)
    /\ bh_next' = bh_next + 1
    /\ UNCHANGED <<bh_instructions, bh_returned, exceptHintsDict>>

\* the loop is over: (hints_dict, string_to_hint) is returned
BuildHintsReturn ==
    /\ bh_returned = None
    /\ bh_next > Len(bh_instructions)
    /\ bh_returned' = Some(<<bh_hints_dict, bh_string_to_hint>>)
    /\ UNCHANGED <<bh_instructions, bh_next, bh_hint_offset, bh_hints_dict,
                   bh_string_to_hint, exceptHintsDict>>

\* the hints of an instruction: none, one, or two in either order or twice
\* the same
HintLists ==
    UNION {[1..n -> Hints] : n \in 0..Cardinality(Hints)}

Instructions == [hints : HintLists, op_size : {1, 2}]

InitHintsDict ==
    /\ bh_instructions \in UNION {[1..n -> Instructions] : n \in 0..MaxInstructions}
    /\ bh_next = 1
    /\ bh_hint_offset = 0
    /\ bh_hints_dict = {}
    /\ bh_string_to_hint = {}
    /\ bh_returned = None
    /\ EarlyIdle
    /\ CoreIdle
    /\ ProfileIdle /\ CastIdle /\ ScarbIdle /\ InitRunIdle

NextHintsDict == BuildHintsStep \/ BuildHintsReturn

SpecHintsDict == InitHintsDict /\ [][NextHintsDict]_vars

RECURSIVE OffsetOf(_)
\* the sum of op_size of the instructions before the i-th
OffsetOf(i) ==
    IF i <= 1 THEN 0 ELSE OffsetOf(i - 1) + bh_instructions[i - 1].op_size

Hinted == {i \in 1..Len(bh_instructions) : bh_instructions[i].hints # <<>>}

\* C27: the hint table build_hints_dict returns has exactly one entry per
\* instruction that has a hint, keyed by the sum of op_size of the
\* instructions before it and holding the params of its hints in order;
\* an instruction without hints gives no entry; every hint of every
\* instruction is in the string-to-hint map under its debug string.
C27_HintTable ==
    IsSome(bh_returned) =>
        LET hints_dict == Unwrap(bh_returned)[1]
            string_to_hint == Unwrap(bh_returned)[2]
        IN  /\ {e[1] : e \in hints_dict} = {OffsetOf(i) : i \in Hinted}
            /\ Cardinality(hints_dict) = Cardinality(Hinted)
            /\ \A i \in Hinted :
                   <<OffsetOf(i),
                     [k \in 1..Len(bh_instructions[i].hints) |->
                         [code |-> Debug(bh_instructions[i].hints[k]),
                          accessible_scopes |-> <<>>]]>> \in hints_dict
            /\ \A i \in Hinted : \A k \in 1..Len(bh_instructions[i].hints) :
                   LET hint == bh_instructions[i].hints[k] IN
                   <<Debug(hint), hint>> \in string_to_hint

\* C27 witness: three instructions, the first without hints and of size 2,
\* the second with two hints, the third with one: entries at 2 and at 3
C27_Witness ==
    /\ IsSome(bh_returned)
    /\ Len(bh_instructions) = 3
    /\ bh_instructions[1].hints = <<>> /\ bh_instructions[1].op_size = 2
    /\ Len(bh_instructions[2].hints) = 2 /\ bh_instructions[2].op_size = 1
    /\ Len(bh_instructions[3].hints) = 1
    /\ {e[1] : e \in Unwrap(bh_returned)[1]} = {2, 3}

(***************************************************************************)
(* init::run (forge/src/init.rs:83-123).  Every step is a call that ends   *)
(* in `?`; its outcome (the scarb commands, the file system) is the        *)
(* environment's choice.                                                   *)
(***************************************************************************)
MaxTemplateFiles == 2

\* the j-th file of a template directory, and what is left of it by a write
\* that failed part way
FileName(j) == <<"file", j>>
Truncated(j) == <<"truncated", j>>
Directory == <<"directory", 0>>

\* the step that follows a step that succeeded
next_step(step) ==
    CASE step = "current_dir" -> "scarb_new"
      [] step = "scarb_new" -> "add_snforge_std"
      [] step = "add_snforge_std" -> "scarb_version"
      [] step = "scarb_version" -> "add_starknet"
      [] step = "add_starknet" -> "update_config"
      [] step = "update_config" -> "extend_gitignore"
      [] step = "extend_gitignore" -> "overwrite_src"
      [] step = "overwrite_src" -> "overwrite_tests"
      [] step = "overwrite_tests" -> "return_ok"

\* A step whose error is dropped: the run goes on
on_error_ignored(step) == next_step(step)

\* `?` on an Err: run returns
on_error(step) == "done"

\* the step succeeded, having written `written`
Pass(step, written) ==
    /\ init_pc' = next_step(step)
    /\ init_log' = Append(init_log, [step |-> step, ok |-> TRUE])
    /\ init_touched' = init_touched \cup written
    /\ UNCHANGED <<init_template, init_returned, exceptInit>>

\* the step failed with `message`, having written `written`
Fail(step, message, written) ==
    /\ init_pc' = on_error(step)
    /\ init_log' = Append(init_log, [step |-> step, ok |-> FALSE])
    /\ init_touched' = init_touched \cup written
    /\ init_returned' =
           IF on_error(step) = "done" THEN Some(CfgErr(message)) ELSE init_returned
    /\ UNCHANGED <<init_template, exceptInit>>

\* the step panicked with `message`, having written `written`: the process
\* unwinds out of run
Panic(step, message, written) ==
    /\ init_pc' = "done"
    /\ init_log' = Append(init_log, [step |-> step, ok |-> FALSE])
    /\ init_touched' = init_touched \cup written
    /\ init_returned' = Some(CfgPanic(message))
    /\ UNCHANGED <<init_template, exceptInit>>

\* line 84: std::env::current_dir()?
InitCurrentDir ==
    /\ init_pc = "current_dir"
    /\ \/ Pass("current_dir", {})
       \/ Fail("current_dir", <<"io error">>, {})

\* lines 86-91: scarb new <project_path>
ScarbNew ==
    /\ init_pc = "scarb_new"
    /\ \/ Pass("scarb_new", {})
       \/ Fail("scarb_new", <<"Failed to get current directory">>, {})
       \/ Fail("scarb_new", <<"Failed to initialize a new project">>, {})

\* lines 95-106: scarb add --dev snforge_std
AddSnforgeStd ==
    /\ init_pc = "add_snforge_std"
    /\ \/ Pass("add_snforge_std", {})
       \/ Fail("add_snforge_std", <<"Failed to add snforge_std">>, {})

\* line 108: ScarbCommand::version().run()?
ScarbVersion ==
    /\ init_pc = "scarb_version"
    /\ \/ Pass("scarb_version", {})
       \/ Fail("scarb_version", <<"scarb version failed">>, {})

\* lines 109-115: scarb add starknet@<cairo_version>
AddStarknet ==
    /\ init_pc = "add_starknet"
    /\ \/ Pass("add_starknet", {})
       \/ Fail("add_starknet", <<"Failed to add starknet">>, {})

\* update_config(project_path/Scarb.toml): read, parse, add the target and
\* the edition, write.  document["package"]["edition"] = .. (line 71) panics
\* with "index not found" when `package` of the parsed document is not a
\* table: nothing is written and run does not return
UpdateConfig ==
    /\ init_pc = "update_config"
    /\ \/ Pass("update_config", {<<"Scarb.toml", "target">>, <<"Scarb.toml", "edition">>})
       \/ Fail("update_config", <<"io error">>, {})
       \/ Fail("update_config", <<"invalid document">>, {})
       \/ Panic("update_config", <<"index not found">>, {})
       \/ Fail("update_config", <<"io error">>, {<<"Scarb.toml", "truncated">>})

\* extend_gitignore(project_path): open for append, write one line.  writeln!
\* (line 78) can fail after part of the line went into the file
ExtendGitignore ==
    /\ init_pc = "extend_gitignore"
    /\ \/ Pass("extend_gitignore", {<<".gitignore", ".snfoundry_cache/">>})
       \/ Fail("extend_gitignore", <<"io error">>, {})
       \/ Fail("extend_gitignore", <<"io error">>, {<<".gitignore", "partly written">>})

\* what the loop of lines 26-33 leaves behind after `k` files: the directory
\* (create_dir_all, line 27, runs once per file) and the files written
files_written(dir, k) ==
    IF k = 0 THEN {}
    ELSE {<<dir, Directory>>} \cup {<<dir, FileName(j)>> : j \in 1..k}

\* overwrite_files_from_scarb_template(dir, project_path, project_name):
\* for each file of the template directory, in turn: create the directory,
\* substitute the project name, write the file; `?` on each of the three.
\* A write that fails may have created or truncated the file already
overwrite_files_from_scarb_template(step, dir) ==
    IF init_template[dir] = None
    THEN Fail(step, <<"Directory ", dir, " doesn't exist in the template.">>, {})
    ELSE LET files == Unwrap(init_template[dir]) IN
         \E k \in 0..files :
             IF k = files THEN Pass(step, files_written(dir, k))
             ELSE \/ Fail(step, <<"io error">>, files_written(dir, k))
                  \/ Fail(step, <<"UTF-8 error">>,
                          files_written(dir, k) \cup {<<dir, Directory>>})
                  \/ Fail(step, <<"io error">>,
                          files_written(dir, k) \cup {<<dir, Directory>>})
                  \/ Fail(step, <<"io error">>,
                          files_written(dir, k) \cup
                              {<<dir, Directory>>, <<dir, Truncated(k + 1)>>})

\* line 119
OverwriteSrc ==
    /\ init_pc = "overwrite_src"
    /\ overwrite_files_from_scarb_template("overwrite_src", "src")

\* line 120
OverwriteTests ==
    /\ init_pc = "overwrite_tests"
    /\ overwrite_files_from_scarb_template("overwrite_tests", "tests")

\* line 122: Ok(())
InitReturnOk ==
    /\ init_pc = "return_ok"
    /\ init_returned = None
    /\ init_pc' = "done"
    /\ init_returned' = Some(CfgOk("()"))
    /\ UNCHANGED <<init_template, init_log, init_touched, exceptInit>>

TemplateDirs == {"src", "tests"}

InitInit ==
    /\ init_template \in
           [TemplateDirs -> {None} \cup {Some(n) : n \in 0..MaxTemplateFiles}]
    /\ init_pc = "current_dir"
    /\ init_log = <<>>
    /\ init_touched = {}
    /\ init_returned = None
    /\ EarlyIdle
    /\ CoreIdle
    /\ ProfileIdle /\ CastIdle /\ ScarbIdle /\ HintsDictIdle

NextInit ==
    \/ InitCurrentDir
    \/ ScarbNew
    \/ AddSnforgeStd
    \/ ScarbVersion
    \/ AddStarknet
    \/ UpdateConfig
    \/ ExtendGitignore
    \/ OverwriteSrc
    \/ OverwriteTests
    \/ InitReturnOk

SpecInit == InitInit /\ [][NextInit]_vars

\* the order the claim gives
StepOrder ==
    <<"scarb_new", "add_snforge_std", "add_starknet", "update_config",
      "extend_gitignore", "overwrite_src", "overwrite_tests">>

IsOrderedStep(entry) == \E i \in 1..Len(StepOrder) : StepOrder[i] = entry.step

Succeeded(step) ==
    \E i \in 1..Len(init_log) : init_log[i].step = step /\ init_log[i].ok

\* C28: the steps of init::run that were taken are an initial stretch of
\* scarb new, add snforge_std, add starknet, update Scarb.toml, extend
\* .gitignore, overwrite src, overwrite tests; only the last step taken can
\* have failed, and then run has ended with an error or a panic, never with
\* Ok; nothing of Scarb.toml,
\* .gitignore or the templates is written before the three scarb commands
\* succeeded; run returns Ok only when each of the seven succeeded.
C28_StepsInOrder ==
    LET taken == SelectSeq(init_log, IsOrderedStep) IN
    /\ Len(taken) <= Len(StepOrder)
    /\ \A i \in 1..Len(taken) : taken[i].step = StepOrder[i]
    /\ \A i \in 1..(Len(init_log) - 1) : init_log[i].ok
    /\ (\E i \in 1..Len(init_log) : ~init_log[i].ok) =>
           /\ init_pc = "done"
           /\ IsSome(init_returned)
           /\ Unwrap(init_returned).tag \in {"Err", "Panic"}
    /\ init_touched # {} =>
           Succeeded("scarb_new") /\ Succeeded("add_snforge_std")
               /\ Succeeded("add_starknet")
    /\ (IsSome(init_returned) /\ Unwrap(init_returned).tag = "Ok") =>
           \A i \in 1..Len(StepOrder) : Succeeded(StepOrder[i])

\* C28 witness: the three scarb commands and the update of Scarb.toml
\* succeeded, .gitignore could not be extended, and run returned the error
\* without writing a template file
C28_Witness ==
    /\ Succeeded("update_config")
    /\ Len(init_log) = 7
    /\ init_log[7] = [step |-> "extend_gitignore", ok |-> FALSE]
    /\ init_pc = "done"
    /\ init_touched = {<<"Scarb.toml", "target">>, <<"Scarb.toml", "edition">>}
    /\ IsSome(init_returned) /\ Unwrap(init_returned).tag = "Err"

====
